---- MODULE Spec2Model ----
(***************************************************************************)
(* Ledger consistency engine and depreciation run of the bookkeeping       *)
(* application (React DataContext over a Supabase store).                  *)
(*                                                                         *)
(* The store (tables accounts, transactions + journal_entries, assets) and *)
(* the React state of one session (accounts, transactions, assets, the     *)
(* account form's editingAccount, the depreciation modal's preview) are    *)
(* separate variables: handlers read the React state where the code does   *)
(* and the store where the code re-reads it (api.getAccounts).             *)
(*                                                                         *)
(* Amounts are whole currency units (IDR has no minor unit), dates are ISO *)
(* dates yyyy-mm-dd written as the number yyyymmdd, null is 0 / "".        *)
(***************************************************************************)
EXTENDS Integers, Sequences, FiniteSets, TLC

\* ------------------------------------------------------------------ bounds
\* ids handed out by createTransaction in one behaviour
MaxTx == 2
\* account-screen submissions (create, edit, delete) in one behaviour
MaxAccountOps == 2
\* deleteTransaction calls that fail (each may still write balances)
MaxFailedDeletes == 1
\* milliseconds the client clock runs for
MaxClock == 1

VARIABLES
    dbAccounts,       \* store, table accounts: code -> [name, type, balance]
    dbTransactions,   \* store, transactions with nested journal_entries: id -> [date, description, entries]
    dbAssets,         \* store, table assets: id -> asset
    accounts,         \* React state `accounts` (last fetchData)
    transactions,     \* React state `transactions`
    assets,           \* React state `assets`
    nextId,           \* next client-generated transaction id
    nextAssetId,      \* next client-generated asset id
    accountOps,       \* account-screen submissions so far
    failedDeletes,    \* failed deleteTransaction calls so far
    editingAccount,   \* Accounts.editingAccount: the account object the form was opened with, or NoAccount
    depreciationDate, \* DepreciationModal.depreciationDate
    period,           \* Reports.period: [start, end]
    selectedAccountCode, \* Ledger.selectedAccountCode ("" = none chosen)
    isImportModalOpen, \* Transactions.isImportModalOpen
    importStatus,     \* Transactions.importStatus
    importData,       \* Transactions.importData: the payloads of the preview
    importErrors,     \* Transactions.importErrors: [row, error]
    importFile,       \* history: the rows of the sheet read last
    session,          \* DataProvider.session: TRUE when a session is set
    user,             \* DataProvider.user: the session's user, named by the role of the
                      \* user's profile row ("" for a user without one); "null" when null
    profile,          \* DataProvider.profile: its role, "" when null or without role
    authLoading,      \* DataProvider.authLoading
    pendingProfiles,  \* roles of the api.getUserProfile calls in flight
    activeSection,    \* App.activeSection
    clock,            \* Date.now() of the client, in milliseconds
    numericId,        \* history: the generateNumericId() value of every transaction id issued
    accountsBefore,   \* history: by transaction id, the stored accounts before it was posted
    initial_assets,   \* history: the assets on record at the start
    other,            \* the addTransaction call in flight in session 2:
                      \* [pc, id, header, entries, currentAccounts]
    otherTransactions, \* React state `transactions` of session 2
    codeUnique,       \* whether the accounts table rejects a second row with a code it holds
    fetches,          \* the fetchData calls of the sessions: [pc, pending, rejected]
    insertedBy,       \* history: the default codes each session's fetchData inserted
    preview,          \* DepreciationModal.preview: NoPreview (null), or the items [asset, amount]
                      \* by asset id, with the date they were computed for
    initial_balance,  \* history: balance each account was created with
    last              \* history: the operation that ran last and its outcome

importVars == <<isImportModalOpen, importStatus, importData, importErrors, importFile>>

navVars == <<session, user, profile, authLoading, pendingProfiles, activeSection>>

idVars == <<clock, numericId>>

histVars == <<accountsBefore, initial_assets>>

fetchVars == <<codeUnique, fetches, insertedBy>>

otherVars == <<other, otherTransactions>>

auxVars == <<idVars, histVars, fetchVars, otherVars>>

vars == <<dbAccounts, dbTransactions, dbAssets, accounts, transactions, assets,
          nextId, nextAssetId, accountOps, failedDeletes, editingAccount, depreciationDate,
          selectedAccountCode, importVars, navVars, auxVars, period, preview, initial_balance, last>>

\* ------------------------------------------------------------- helpers
Min(S) == CHOOSE x \in S : \A y \in S : x <= y

RECURSIVE SumDebit(_)
SumDebit(es) == IF es = <<>> THEN 0 ELSE Head(es).debit + SumDebit(Tail(es))

RECURSIVE SumCredit(_)
SumCredit(es) == IF es = <<>> THEN 0 ELSE Head(es).credit + SumCredit(Tail(es))

\* ------------------------------------------------------ chart of accounts
AccountTypes == {"Aset", "Liabilitas", "Modal", "Pendapatan", "Beban"}

\* helpers.ts defaultAccounts (the rows the model's forms can reach, plus one of
\* each remaining type); every default account starts with balance 0
defaultAccounts ==
    [c \in {"1100", "1500", "1600", "2100", "3100", "3200", "4100", "5400"} |->
        CASE c = "1100" -> [name |-> "Kas", type |-> "Aset", balance |-> 0]
          [] c = "1500" -> [name |-> "Peralatan", type |-> "Aset", balance |-> 0]
          [] c = "1600" -> [name |-> "Akumulasi Penyusutan Peralatan", type |-> "Aset", balance |-> 0]
          [] c = "2100" -> [name |-> "Utang Dagang", type |-> "Liabilitas", balance |-> 0]
          [] c = "3100" -> [name |-> "Modal Saham", type |-> "Modal", balance |-> 0]
          [] c = "3200" -> [name |-> "Laba Ditahan", type |-> "Modal", balance |-> 0]
          [] c = "4100" -> [name |-> "Pendapatan Jasa Pendidikan", type |-> "Pendapatan", balance |-> 0]
          [] c = "5400" -> [name |-> "Beban Penyusutan", type |-> "Beban", balance |-> 0]]

\* account codes offered in the transaction form's dropdown that the model selects
FormCodes == {"1500", "3100"}

\* what the model types into the transaction form: the number of rows, the
\* amounts, the date of a new transaction and the date an edit changes it to
FormRowCounts == {2}
FormAmounts == {0, 1}
FormDates == {20240115}
EditDates == {20240220}

NoAccount == [code |-> "", name |-> "", type |-> "", balance |-> 0]
NoPreview == [shown |-> FALSE, asOf |-> 0, items |-> <<>>]

\* history record of the last handler run: its name, its outcome, the
\* transaction id or account code it was called with; for a successful
\* addTransaction the balances before it, which a deleteTransaction of the same
\* id that follows directly keeps (roundTrip)
LastOp(op, ok, error, id, before, roundTrip) ==
    [op |-> op, ok |-> ok, error |-> error, id |-> id, before |-> before,
     roundTrip |-> roundTrip]

NoLast == LastOp("none", TRUE, "", 0, <<>>, FALSE)

Balances(accs) == [c \in DOMAIN accs |-> accs[c].balance]

\* ------------------------------------------------------------ fetchData
\* fetchData: load the store into the React state; an empty accounts table is
\* seeded with the default chart first
SeedDefaults(accs) == IF DOMAIN accs = {} THEN defaultAccounts ELSE accs

\* ------------------------------------------------------ api.createTransaction
\* outcomes of the two inserts and of the compensating delete
CreateOutcomes == {"ok", "headerFails", "entriesFail", "entriesFailRollbackFails"}

\* the store's transactions after api.createTransaction(header, entries)
createTransaction(txs, id, header, entries, outcome) ==
    CASE outcome = "ok" ->
            (id :> [date |-> header.date, description |-> header.description,
                    entries |-> entries]) @@ txs
      [] outcome = "headerFails" -> txs
      [] outcome = "entriesFail" -> txs
      [] outcome = "entriesFailRollbackFails" ->
            (id :> [date |-> header.date, description |-> header.description,
                    entries |-> <<>>]) @@ txs

\* ------------------------------------------------------------ addTransaction
AddNewBalance(account, entry) ==
    IF account.type = "Aset" \/ account.type = "Beban"
    THEN account.balance + (entry.debit - entry.credit)
    ELSE account.balance - (entry.debit - entry.credit)

DeleteNewBalance(account, entry) ==
    IF account.type = "Aset" \/ account.type = "Beban"
    THEN account.balance - (entry.debit - entry.credit)
    ELSE account.balance + (entry.debit - entry.credit)

\* entries.map(...) throws at the first entry whose account is not in
\* currentAccounts; the api.updateAccount calls of the entries before it are
\* already issued
FirstMissing(entries, currentAccounts) ==
    LET miss == {i \in 1..Len(entries) : entries[i].account_code \notin DOMAIN currentAccounts}
    IN  IF miss = {} THEN Len(entries) + 1 ELSE Min(miss)

Issued(entries, currentAccounts) == 1..(FirstMissing(entries, currentAccounts) - 1)

\* The issued updates run concurrently (Promise.all); every one writes an
\* absolute balance computed from the same currentAccounts snapshot, so for
\* each account the write that reaches the store last stays: w names it.
LastWrites(entries, issued) ==
    LET codes == {entries[i].account_code : i \in issued}
    IN  {w \in [codes -> issued] : \A c \in codes : entries[w[c]].account_code = c}

ApplyAdd(currentAccounts, entries, w) ==
    [c \in DOMAIN currentAccounts |->
        IF c \in DOMAIN w
        THEN [currentAccounts[c] EXCEPT !.balance = AddNewBalance(currentAccounts[c], entries[w[c]])]
        ELSE currentAccounts[c]]

ApplyDelete(currentAccounts, entries, w) ==
    [c \in DOMAIN currentAccounts |->
        IF c \in DOMAIN w
        THEN [currentAccounts[c] EXCEPT !.balance = DeleteNewBalance(currentAccounts[c], entries[w[c]])]
        ELSE currentAccounts[c]]

\* Step 3 of addTransaction: a debit to an Aset account outside the list
\* creates an asset record
nonFixedAssetCodes == {"1100", "1200", "1300", "1400", "1600"}

\* the trigger without the list of excluded codes
TriggersAssetAnyCode(entry, currentAccounts) ==
    /\ entry.debit > 0
    /\ entry.account_code \in DOMAIN currentAccounts
    /\ currentAccounts[entry.account_code].type = "Aset"

TriggersAsset(entry, currentAccounts) ==
    /\ entry.debit > 0
    /\ entry.account_code \in DOMAIN currentAccounts
    /\ currentAccounts[entry.account_code].type = "Aset"
    /\ entry.account_code \notin nonFixedAssetCodes

NewAssetFor(entry, header) ==
    [name |-> header.description, cost |-> entry.debit, date |-> header.date, life |-> 0, residual |-> 0,
     method |-> "", is_depreciable |-> TRUE, accumulated_depreciation |-> 0,
     last_depreciation_date |-> 0]

\* the entries for which api.createAsset is called
TriggerIndexes(entries, currentAccounts) ==
    {i \in 1..Len(entries) : TriggersAsset(entries[i], currentAccounts)}

\* the assets after the api.createAsset calls of the entries from `index` on,
\* the calls of the entries in `rejected` being rejected by the store
RECURSIVE CreateAssetsExcept(_, _, _, _, _, _, _)
CreateAssetsExcept(asts, aid, entries, header, currentAccounts, index, rejected) ==
    IF index > Len(entries) THEN asts
    ELSE IF index \in TriggerIndexes(entries, currentAccounts) \ rejected
         THEN CreateAssetsExcept((aid :> NewAssetFor(entries[index], header)) @@ asts,
                                 aid + 1, entries, header, currentAccounts, index + 1,
                                 rejected)
         ELSE CreateAssetsExcept(asts, aid, entries, header, currentAccounts, index + 1,
                                 rejected)

CreateAssets(asts, aid, entries, header, currentAccounts) ==
    CreateAssetsExcept(asts, aid, entries, header, currentAccounts, 1, {})

\* The whole of addTransaction(header, entries) on the store `accs, txs, asts`:
\* the store afterwards, whether it threw, and whether fetchData ran.
\* `rejected`: the entries whose api.createAsset call the store rejects.
addTransactionWith(accs, txs, asts, id, aid, header, entries, outcome, w, rejected) ==
    LET txs1   == createTransaction(txs, id, header, entries, outcome)
        thrown == FirstMissing(entries, accs) <= Len(entries)
    IN  IF outcome # "ok"
        THEN [ok |-> FALSE, error |-> "createTransaction", accs |-> accs, txs |-> txs1,
              asts |-> asts, fetched |-> FALSE]
        ELSE IF thrown
        THEN [ok |-> FALSE, error |-> "AccountNotFound", accs |-> ApplyAdd(accs, entries, w),
              txs |-> txs1, asts |-> asts, fetched |-> FALSE]
        ELSE IF TriggerIndexes(entries, accs) \cap rejected # {}
        THEN [ok |-> FALSE, error |-> "createAsset", accs |-> ApplyAdd(accs, entries, w),
              txs |-> txs1,
              asts |-> CreateAssetsExcept(asts, aid, entries, header, accs, 1, rejected),
              fetched |-> FALSE]
        ELSE [ok |-> TRUE, error |-> "", accs |-> SeedDefaults(ApplyAdd(accs, entries, w)),
              txs |-> txs1,
              asts |-> CreateAssets(asts, aid, entries, header, accs),
              fetched |-> TRUE]

\* addTransaction with a store that accepts every api.createAsset call
addTransaction(accs, txs, asts, id, aid, header, entries, outcome, w) ==
    addTransactionWith(accs, txs, asts, id, aid, header, entries, outcome, w, {})

\* ---------------------------------------------------- TransactionForm
\* a row of the form: handleEntryChange keeps at most one of debit and credit
FormRowOf(codes, accs) ==
    {[account_code |-> c, debit |-> d, credit |-> k] :
        c \in (codes \cap DOMAIN accs) \cup {""},
        d \in FormAmounts, k \in FormAmounts} \
    {r \in [account_code : codes \cup {""}, debit : FormAmounts, credit : FormAmounts] :
        r.debit > 0 /\ r.credit > 0}

FormRow(accs) == FormRowOf(FormCodes, accs)

isBalanced(rows) == SumDebit(rows) > 0 /\ SumDebit(rows) = SumCredit(rows)

validEntries(rows) ==
    SelectSeq(rows, LAMBDA e : e.account_code # "" /\ (e.debit > 0 \/ e.credit > 0))

\* the forms that can be filled in with accounts among `codes`
FormsOf(codes, accs) == UNION {[1..n -> FormRowOf(codes, accs)] : n \in FormRowCounts}

\* TransactionForm.handleSubmit for a new transaction filled in as one of
\* `forms`, dated one of `dates`, the store answering api.createTransaction
\* with one of `outcomes` and, when `rejections`, rejecting any of the
\* api.createAsset calls
TransactionFormPostRows(outcomes, forms, dates, rejections) ==
    /\ nextId <= MaxTx
    /\ \E rows \in forms :
       \E date \in dates :
       \E outcome \in outcomes :
          /\ isBalanced(rows)
          /\ LET entries == validEntries(rows)
                 header  == [date |-> date, description |-> "Transaksi"]
             IN  \E w \in LastWrites(entries, Issued(entries, dbAccounts)) :
                 \E rejected \in (IF rejections
                                  THEN SUBSET TriggerIndexes(entries, dbAccounts)
                                  ELSE {{}}) :
                 LET r == addTransactionWith(dbAccounts, dbTransactions, dbAssets, nextId,
                                             nextAssetId, header, entries, outcome, w,
                                             rejected)
                 IN  /\ dbAccounts' = r.accs
                     /\ dbTransactions' = r.txs
                     /\ dbAssets' = r.asts
                     /\ nextId' = nextId + 1
                     /\ nextAssetId' = nextAssetId + Cardinality(DOMAIN r.asts)
                                                   - Cardinality(DOMAIN dbAssets)
                     /\ accounts' = IF r.fetched THEN r.accs ELSE accounts
                     /\ transactions' = IF r.fetched THEN r.txs ELSE transactions
                     /\ assets' = IF r.fetched THEN r.asts ELSE assets
                     /\ last' = LastOp("addTransaction", r.ok, r.error, nextId,
                                       IF r.ok THEN Balances(dbAccounts) ELSE <<>>, FALSE)
    /\ UNCHANGED <<accountOps, failedDeletes, editingAccount, depreciationDate,
                   selectedAccountCode, importVars, navVars, period, preview,
                   initial_balance>>

TransactionFormPostCore(outcomes, codes, dates, rejections) ==
    TransactionFormPostRows(outcomes, FormsOf(codes, accounts), dates, rejections)

\* forms with debits and credits on asset accounts inside and outside
\* nonFixedAssetCodes
AutoAssetForms(accs) ==
    LET FormLine(code, debit, credit) ==
            [account_code |-> code, debit |-> debit, credit |-> credit]
    IN
    {rows \in { <<FormLine("1500", 2, 0), FormLine("3100", 0, 2)>>,
                <<FormLine("1500", 1, 0), FormLine("1500", 1, 0), FormLine("3100", 0, 2)>>,
                <<FormLine("1500", 1, 0), FormLine("1600", 1, 0), FormLine("3100", 0, 2)>>,
                <<FormLine("1100", 1, 0), FormLine("3100", 0, 1)>>,
                <<FormLine("1100", 1, 0), FormLine("1500", 0, 1)>>,
                <<FormLine("5400", 1, 0), FormLine("1100", 0, 1)>> } :
        \A i \in DOMAIN rows : rows[i].account_code \in DOMAIN accs}

AutoAssetDates == {20240115, 20240220}

\* posting those forms, every store call being accepted
AutoAssetFormSubmit ==
    /\ TransactionFormPostRows({"ok"}, AutoAssetForms(accounts), AutoAssetDates, FALSE)
    /\ UNCHANGED auxVars

\* the same with a store that may reject api.createAsset calls
AutoAssetFormSubmitRejected ==
    /\ TransactionFormPostRows({"ok"}, AutoAssetForms(accounts), AutoAssetDates, TRUE)
    /\ UNCHANGED auxVars

\* the transaction form with a store whose inserts succeed, the stored
\* accounts before the posting being remembered
TransactionFormSubmitRecorded ==
    /\ TransactionFormPostCore({"ok"}, FormCodes, FormDates, FALSE)
    /\ accountsBefore' = (nextId :> dbAccounts) @@ accountsBefore
    /\ UNCHANGED <<idVars, initial_assets, fetchVars, otherVars>>

TransactionFormPostWith(outcomes, codes, dates) ==
    /\ TransactionFormPostCore(outcomes, codes, dates, FALSE)
    /\ UNCHANGED auxVars

TransactionFormPost(outcomes) == TransactionFormPostWith(outcomes, FormCodes, FormDates)

TransactionFormSubmit == TransactionFormPost(CreateOutcomes)

\* the same with a store whose inserts succeed
TransactionFormSubmitOk == TransactionFormPost({"ok"})

\* TransactionForm.handleSubmit for an existing transaction: the form holds the
\* transaction's entries, only date, ref and description are sent
TransactionFormSubmitEdit ==
    /\ \E id \in DOMAIN transactions :
       \E date \in EditDates :
          /\ isBalanced(transactions[id].entries)
          /\ IF id \in DOMAIN dbTransactions
             THEN /\ dbTransactions' = [dbTransactions EXCEPT ![id].date = date,
                                                              ![id].description = "Koreksi"]
                  /\ dbAccounts' = SeedDefaults(dbAccounts)
                  /\ accounts' = dbAccounts'
                  /\ transactions' = dbTransactions'
                  /\ assets' = dbAssets
                  /\ last' = LastOp("updateTransaction", TRUE, "", id, <<>>, FALSE)
             ELSE /\ UNCHANGED <<dbTransactions, dbAccounts, accounts, transactions, assets>>
                  /\ last' = LastOp("updateTransaction", FALSE, "NotFound", id, <<>>, FALSE)
    /\ UNCHANGED <<dbAssets, nextId, nextAssetId, accountOps, failedDeletes, editingAccount,
                   depreciationDate, selectedAccountCode, importVars, navVars, auxVars, period,
                   preview,
                   initial_balance>>

\* ---------------------------------------------------------- deleteTransaction
\* deleteTransaction without the check that every entry's account exists
deleteTransactionUnguarded(accs, txs, transactionToDelete, id, w) ==
    [ok |-> TRUE, error |-> "",
     accs |-> SeedDefaults(ApplyDelete(accs, transactionToDelete.entries, w)),
     txs |-> [t \in DOMAIN txs \ {id} |-> txs[t]], fetched |-> TRUE]

\* The whole of deleteTransaction(id): transactionToDelete comes from the React
\* state, the balances from a fresh api.getAccounts().
deleteTransaction(accs, txs, transactionToDelete, id, w) ==
    IF FirstMissing(transactionToDelete.entries, accs) <= Len(transactionToDelete.entries)
    THEN [ok |-> FALSE, error |-> "AccountNotFound",
          accs |-> ApplyDelete(accs, transactionToDelete.entries, w),
          txs |-> txs, fetched |-> FALSE]
    ELSE [ok |-> TRUE, error |-> "",
          accs |-> SeedDefaults(ApplyDelete(accs, transactionToDelete.entries, w)),
          txs |-> [t \in DOMAIN txs \ {id} |-> txs[t]], fetched |-> TRUE]

\* Transactions.handleDelete, confirmed by the user
HandleDeleteTransaction ==
    /\ \E id \in DOMAIN transactions :
       LET entries == transactions[id].entries
       IN  \E w \in LastWrites(entries, Issued(entries, dbAccounts)) :
           LET r == deleteTransaction(dbAccounts, dbTransactions, transactions[id], id, w)
           IN  /\ r.ok \/ failedDeletes < MaxFailedDeletes
               /\ failedDeletes' = IF r.ok THEN failedDeletes ELSE failedDeletes + 1
               /\ dbAccounts' = r.accs
               /\ dbTransactions' = r.txs
               /\ accounts' = IF r.fetched THEN r.accs ELSE accounts
               /\ transactions' = IF r.fetched THEN r.txs ELSE transactions
               /\ assets' = IF r.fetched THEN dbAssets ELSE assets
               /\ last' = LastOp("deleteTransaction", r.ok, r.error, id,
                                 IF last.op = "addTransaction" /\ last.ok /\ last.id = id
                                 THEN last.before ELSE <<>>,
                                 last.op = "addTransaction" /\ last.ok /\ last.id = id)
    /\ UNCHANGED <<dbAssets, nextId, nextAssetId, accountOps, editingAccount,
                   depreciationDate, selectedAccountCode, importVars, navVars, auxVars, period,
                   preview,
                   initial_balance>>

\* ------------------------------------------------------- a second session
\* Steps 1 and 2 of addTransaction called in session 2: api.createTransaction
\* stores the transaction, api.getAccounts() returns currentAccounts
OtherAddTransactionRead ==
    /\ other.pc = "idle"
    /\ nextId <= MaxTx
    /\ \E rows \in FormsOf(FormCodes, dbAccounts) :
       \E date \in FormDates :
          /\ isBalanced(rows)
          /\ LET header == [date |-> date, description |-> "Transaksi"]
             IN  /\ dbTransactions' = createTransaction(dbTransactions, nextId, header,
                                                        validEntries(rows), "ok")
                 /\ other' = [pc |-> "read", id |-> nextId, header |-> header,
                              entries |-> validEntries(rows),
                              currentAccounts |-> dbAccounts]
    /\ nextId' = nextId + 1
    /\ UNCHANGED <<dbAccounts, dbAssets, accounts, transactions, assets, nextAssetId,
                   accountOps, failedDeletes, editingAccount, depreciationDate,
                   selectedAccountCode, importVars, navVars, idVars, histVars, fetchVars,
                   otherTransactions, period, preview, initial_balance, last>>

\* the balance writes that look at the store again instead of currentAccounts
WriteBalancesFresh(stored, currentAccounts, entries, w) ==
    [c \in DOMAIN stored |->
        IF c \in DOMAIN w
        THEN [stored[c] EXCEPT !.balance = ApplyAdd(stored, entries, w)[c].balance]
        ELSE stored[c]]

\* the api.updateAccount(code, {balance: newBalance}) calls of addTransaction
\* as they reach the store: newBalance was computed from currentAccounts
WriteBalances(stored, currentAccounts, entries, w) ==
    [c \in DOMAIN stored |->
        IF c \in DOMAIN w
        THEN [stored[c] EXCEPT !.balance = ApplyAdd(currentAccounts, entries, w)[c].balance]
        ELSE stored[c]]

\* the rest of addTransaction in session 2: the balance updates, the asset
\* records and the fetchData of that session
OtherAddTransactionWrite ==
    /\ other.pc = "read"
    /\ \E w \in LastWrites(other.entries, Issued(other.entries, other.currentAccounts)) :
          dbAccounts' = WriteBalances(dbAccounts, other.currentAccounts, other.entries, w)
    /\ LET thrown == FirstMissing(other.entries, other.currentAccounts) <= Len(other.entries)
       IN  /\ dbAssets' = IF thrown THEN dbAssets
                          ELSE CreateAssets(dbAssets, nextAssetId, other.entries, other.header,
                                            other.currentAccounts)
           /\ nextAssetId' = nextAssetId + Cardinality(DOMAIN dbAssets')
                                         - Cardinality(DOMAIN dbAssets)
           /\ otherTransactions' = IF thrown THEN otherTransactions ELSE dbTransactions
           /\ last' = LastOp("addTransaction", ~thrown,
                             IF thrown THEN "AccountNotFound" ELSE "", other.id, <<>>, FALSE)
    /\ other' = [pc |-> "idle", id |-> 0, header |-> <<>>, entries |-> <<>>,
                 currentAccounts |-> <<>>]
    /\ UNCHANGED <<dbTransactions, accounts, transactions, assets, nextId, accountOps,
                   failedDeletes, editingAccount, depreciationDate, selectedAccountCode,
                   importVars, navVars, idVars, histVars, fetchVars, period, preview,
                   initial_balance>>

\* fetchData in session 2 (the store holds accounts)
OtherFetchData ==
    /\ DOMAIN dbAccounts # {}
    /\ otherTransactions' = dbTransactions
    /\ otherTransactions' # otherTransactions
    /\ UNCHANGED <<dbAccounts, dbTransactions, dbAssets, accounts, transactions, assets,
                   nextId, nextAssetId, accountOps, failedDeletes, editingAccount,
                   depreciationDate, selectedAccountCode, importVars, navVars, idVars,
                   histVars, fetchVars, other, period, preview, initial_balance, last>>

\* deleteTransaction(id) called in session 2 on a transaction of its list;
\* api.deleteTransaction of a row that is gone deletes nothing and is no error
OtherDeleteTransaction ==
    /\ \E id \in DOMAIN otherTransactions :
       LET entries == otherTransactions[id].entries
       IN  \E w \in LastWrites(entries, Issued(entries, dbAccounts)) :
           LET r == deleteTransaction(dbAccounts, dbTransactions, otherTransactions[id], id, w)
           IN  /\ r.ok \/ failedDeletes < MaxFailedDeletes
               /\ failedDeletes' = IF r.ok THEN failedDeletes ELSE failedDeletes + 1
               /\ dbAccounts' = r.accs
               /\ dbTransactions' = r.txs
               /\ otherTransactions' = IF r.fetched THEN r.txs ELSE otherTransactions
               /\ last' = LastOp("deleteTransaction", r.ok, r.error, id, <<>>, FALSE)
    /\ UNCHANGED <<dbAssets, accounts, transactions, assets, nextId, nextAssetId, accountOps,
                   editingAccount, depreciationDate, selectedAccountCode, importVars, navVars,
                   idVars, histVars, fetchVars, other, period, preview, initial_balance>>

\* ------------------------------------------------------------- Accounts
\* codes the model's account screen acts on, and what it types into the form
EditCodes == {"3100"}
DeleteCodes == {"1500", "3100"}
NewCodes == {"6100"}
FormNames == {"Kas Kecil"}
FormTypes == {"Beban"}
FormBalances == {0, 1}

\* the edits the model makes in an open account form: a new name or a new type
AccountEdits(account) ==
    {[name |-> n, type |-> account.type] : n \in FormNames} \cup
    {[name |-> account.name, type |-> t] : t \in FormTypes}

\* Accounts.handleOpenModal(account): the row's account object is kept
HandleOpenModal ==
    /\ \E c \in EditCodes \cap DOMAIN accounts :
          editingAccount' = [code |-> c, name |-> accounts[c].name, type |-> accounts[c].type,
                             balance |-> accounts[c].balance]
    /\ UNCHANGED <<dbAccounts, dbTransactions, dbAssets, accounts, transactions, assets,
                   nextId, nextAssetId, accountOps, failedDeletes, depreciationDate,
                   selectedAccountCode, importVars, navVars, auxVars, period, preview,
                   initial_balance, last>>

\* Accounts.handleCloseModal
HandleCloseModal ==
    /\ editingAccount # NoAccount
    /\ editingAccount' = NoAccount
    /\ UNCHANGED <<dbAccounts, dbTransactions, dbAssets, accounts, transactions, assets,
                   nextId, nextAssetId, accountOps, failedDeletes, depreciationDate,
                   selectedAccountCode, importVars, navVars, auxVars, period, preview,
                   initial_balance, last>>

\* the updates AccountForm.handleSubmit sends for an edit: every field of
\* formData but the code, balance included (the field is disabled, its value is
\* the one the form was opened with)
AccountFormUpdates(formData) ==
    [name |-> formData.name, type |-> formData.type, balance |-> formData.balance]

\* AccountForm.handleSubmit with accountToEdit set
AccountFormSubmitEdit ==
    /\ accountOps < MaxAccountOps
    /\ accountOps' = accountOps + 1
    /\ editingAccount # NoAccount
    /\ \E edit \in AccountEdits(editingAccount) :
       LET formData == [editingAccount EXCEPT !.name = edit.name, !.type = edit.type]
           code == editingAccount.code
       IN  IF code \in DOMAIN dbAccounts
           THEN /\ dbAccounts' = [dbAccounts EXCEPT ![code] = AccountFormUpdates(formData)]
                /\ accounts' = dbAccounts'
                /\ transactions' = dbTransactions
                /\ assets' = dbAssets
                /\ editingAccount' = NoAccount
                /\ last' = LastOp("updateAccount", TRUE, "", code, <<>>, FALSE)
           ELSE /\ UNCHANGED <<dbAccounts, accounts, transactions, assets, editingAccount>>
                /\ last' = LastOp("updateAccount", FALSE, "NotFound", code, <<>>, FALSE)
    /\ UNCHANGED <<dbTransactions, dbAssets, nextId, nextAssetId, failedDeletes,
                   depreciationDate, selectedAccountCode, importVars, navVars, auxVars, period,
                   preview,
                   initial_balance>>

\* AccountForm.handleSubmit for a new account (opening balance typed in)
AccountFormSubmitNew ==
    /\ accountOps < MaxAccountOps
    /\ accountOps' = accountOps + 1
    /\ editingAccount = NoAccount
    /\ \E code \in NewCodes \ DOMAIN accounts :
       \E type \in FormTypes :
       \E balance \in FormBalances :
          IF code \notin DOMAIN dbAccounts
          THEN /\ dbAccounts' = (code :> [name |-> "Akun Baru", type |-> type, balance |-> balance])
                                @@ dbAccounts
               /\ initial_balance' = (code :> balance) @@ initial_balance
               /\ accounts' = dbAccounts'
               /\ transactions' = dbTransactions
               /\ assets' = dbAssets
               /\ last' = LastOp("addAccount", TRUE, "", code, <<>>, FALSE)
          ELSE /\ UNCHANGED <<dbAccounts, initial_balance, accounts, transactions, assets>>
               /\ last' = LastOp("addAccount", FALSE, "Duplicate", code, <<>>, FALSE)
    /\ UNCHANGED <<dbTransactions, dbAssets, nextId, nextAssetId, failedDeletes,
                   editingAccount, depreciationDate, selectedAccountCode, importVars, navVars,
                   auxVars, period,
                   preview>>

\* the guard of Accounts.handleDelete: the balance of the row's account object
DeleteAllowed(account) == account.balance = 0

\* Accounts.handleDelete(account), confirmed by the user, on a row whose code
\* is one of `codes`
HandleDeleteAccountOf(codes) ==
    /\ accountOps < MaxAccountOps
    /\ accountOps' = accountOps + 1
    /\ \E code \in codes \cap DOMAIN accounts :
          IF DeleteAllowed(accounts[code])
          THEN /\ dbAccounts' = SeedDefaults([c \in DOMAIN dbAccounts \ {code} |-> dbAccounts[c]])
               /\ accounts' = dbAccounts'
               /\ transactions' = dbTransactions
               /\ assets' = dbAssets
               /\ last' = LastOp("deleteAccount", TRUE, "", code, <<>>, FALSE)
          ELSE /\ UNCHANGED <<dbAccounts, accounts, transactions, assets>>
               /\ last' = LastOp("deleteAccount", FALSE, "Rejected", code, <<>>, FALSE)
    /\ UNCHANGED <<dbTransactions, dbAssets, nextId, nextAssetId, failedDeletes,
                   editingAccount, depreciationDate, selectedAccountCode, importVars, navVars,
                   auxVars, period,
                   preview, initial_balance>>

HandleDeleteAccount == HandleDeleteAccountOf(DeleteCodes)

\* the same on the row of the accumulated-depreciation account, which a
\* depreciation run posts to
DepreciationAccountCodes == {"1600"}

HandleDeleteDepreciationAccount == HandleDeleteAccountOf(DepreciationAccountCodes)

\* ------------------------------------------------- DepreciationModal
\* getFullYear() and getMonth() of an ISO date (read in a time zone at or east
\* of UTC, where the local calendar day is the day written)
YearOf(date) == date \div 10000
MonthOf(date) == (date \div 100) % 100

MonthsBetween(startDate, endDate) ==
    (YearOf(endDate) - YearOf(startDate)) * 12 + (MonthOf(endDate) - MonthOf(startDate))

\* depreciableBase / (life * 12); the model's assets have a depreciable base
\* that is a whole multiple of life * 12, so the quotient is exact
monthlyDepreciation(asset) == (asset.cost - asset.residual) \div (asset.life * 12)

\* calculateDepreciationForAsset without the cap at the remaining value
calculateDepreciationUncapped(asset, upToDate) ==
    IF ~asset.is_depreciable \/ asset.life = 0 \/ asset.life <= 0 THEN 0
    ELSE
    LET depreciableBase == asset.cost - asset.residual
        startDate == IF asset.last_depreciation_date # 0
                     THEN asset.last_depreciation_date ELSE asset.date
        months == MonthsBetween(startDate, upToDate)
        calculatedAmount == monthlyDepreciation(asset) * months
    IN  IF asset.accumulated_depreciation >= depreciableBase THEN 0
        ELSE IF upToDate <= startDate THEN 0
        ELSE IF months <= 0 THEN 0
        ELSE IF calculatedAmount > 0 THEN calculatedAmount ELSE 0

calculateDepreciationForAsset(asset, upToDate) ==
    IF ~asset.is_depreciable \/ asset.life = 0 \/ asset.life <= 0 THEN 0
    ELSE
    LET depreciableBase == asset.cost - asset.residual
        startDate == IF asset.last_depreciation_date # 0
                     THEN asset.last_depreciation_date ELSE asset.date
        months == MonthsBetween(startDate, upToDate)
        calculatedAmount == monthlyDepreciation(asset) * months
        remainingValue == depreciableBase - asset.accumulated_depreciation
        capped == IF calculatedAmount > remainingValue THEN remainingValue
                  ELSE calculatedAmount
    IN  IF asset.accumulated_depreciation >= depreciableBase THEN 0
        ELSE IF upToDate <= startDate THEN 0
        ELSE IF months <= 0 THEN 0
        ELSE IF capped > 0 THEN capped ELSE 0

\* dates the model picks in the modal, and the date the modal resets to
DepreciationDates == {20240115, 20240220, 20250115}
TodayDates == {20240115}

\* DepreciationModal: onChange of the date input
SetDepreciationDate ==
    /\ \E d \in DepreciationDates \ {depreciationDate} : depreciationDate' = d
    /\ UNCHANGED <<selectedAccountCode, importVars, navVars, auxVars, period, dbAccounts,
                   dbTransactions,
                   dbAssets, accounts, transactions, assets,
                   nextId, nextAssetId, accountOps, failedDeletes, editingAccount, preview,
                   initial_balance, last>>

\* DepreciationModal.handlePreview
HandlePreview ==
    /\ preview' =
         [shown |-> TRUE, asOf |-> depreciationDate,
          items |-> [id \in {a \in DOMAIN assets :
                               calculateDepreciationForAsset(assets[a], depreciationDate) > 0} |->
                       [asset |-> assets[id],
                        amount |-> calculateDepreciationForAsset(assets[id], depreciationDate)]]]
    /\ preview' # preview
    /\ UNCHANGED <<dbAccounts, dbTransactions, dbAssets, accounts, transactions, assets,
                   nextId, nextAssetId, accountOps, failedDeletes, editingAccount,
                   depreciationDate, selectedAccountCode, importVars, navVars, auxVars, period,
                   initial_balance,
                   last>>

\* the modal closes (Batal, or after a successful run): the effect on isOpen
\* clears the preview and resets the date to today
CloseDepreciationModal ==
    /\ preview.shown
    /\ preview' = NoPreview
    /\ \E d \in TodayDates : depreciationDate' = d
    /\ UNCHANGED <<selectedAccountCode, importVars, navVars, auxVars, period, dbAccounts,
                   dbTransactions,
                   dbAssets, accounts, transactions, assets,
                   nextId, nextAssetId, accountOps, failedDeletes, editingAccount,
                   initial_balance, last>>

\* ---------------------------------------------------------- runDepreciation
DEPRECIATION_EXPENSE_ACCOUNT == "5400"
ACCUMULATED_DEPRECIATION_ACCOUNT == "1600"

RECURSIVE SumAmounts(_, _)
SumAmounts(items, ids) ==
    IF ids = {} THEN 0
    ELSE LET id == Min(ids) IN items[id].amount + SumAmounts(items, ids \ {id})

totalDepreciationAmount(items) == SumAmounts(items, DOMAIN items)

DepreciationEntries(items) ==
    <<[account_code |-> DEPRECIATION_EXPENSE_ACCOUNT,
       debit |-> totalDepreciationAmount(items), credit |-> 0],
      [account_code |-> ACCUMULATED_DEPRECIATION_ACCOUNT,
       debit |-> 0, credit |-> totalDepreciationAmount(items)]>>

newAccumulatedDepreciation(asset, amount) == asset.accumulated_depreciation + amount

\* step 2 of runDepreciation: api.updateAsset for every item, from the asset
\* object held in the item; the updates run concurrently (Promise.all) and
\* those in `landed` reach the store
UpdateAssets(asts, items, date, landed) ==
    [id \in DOMAIN asts |->
        IF id \in DOMAIN items \cap landed
        THEN [asts[id] EXCEPT
                !.accumulated_depreciation =
                    newAccumulatedDepreciation(items[id].asset, items[id].amount),
                !.last_depreciation_date = date]
        ELSE asts[id]]

\* runDepreciation that updates the assets whether or not the posting succeeded
runDepreciationUnordered(accs, txs, asts, id, aid, date, items, outcome, w, failed) ==
    LET header == [date |-> date, description |-> "Penyusutan aset"]
        r == addTransaction(accs, txs, asts, id, aid, header, DepreciationEntries(items),
                            outcome, w)
    IN  [ok |-> r.ok /\ failed = {}, error |-> IF ~r.ok THEN r.error
                                               ELSE IF failed # {} THEN "updateAsset" ELSE "",
         accs |-> r.accs, txs |-> r.txs,
         asts |-> UpdateAssets(r.asts, items, date, DOMAIN items \ failed),
         fetched |-> r.fetched,
         seen |-> IF r.ok /\ failed = {}
                  THEN UpdateAssets(r.asts, items, date, DOMAIN items) ELSE r.asts]

\* The whole of runDepreciation(date, items), items not empty: the store
\* afterwards, whether it threw, whether a fetchData ran (the one that ends
\* addTransaction, or the final one) and the assets that fetchData saw.
\* `failed` are the items whose api.updateAsset is rejected.
runDepreciation(accs, txs, asts, id, aid, date, items, outcome, w, failed) ==
    LET header == [date |-> date, description |-> "Penyusutan aset"]
        r == addTransaction(accs, txs, asts, id, aid, header, DepreciationEntries(items),
                            outcome, w)
    IN  IF ~r.ok
        THEN [ok |-> FALSE, error |-> r.error, accs |-> r.accs, txs |-> r.txs,
              asts |-> r.asts, fetched |-> r.fetched, seen |-> r.asts]
        ELSE IF failed # {}
        THEN [ok |-> FALSE, error |-> "updateAsset", accs |-> r.accs, txs |-> r.txs,
              asts |-> UpdateAssets(r.asts, items, date, DOMAIN items \ failed),
              fetched |-> TRUE, seen |-> r.asts]
        ELSE [ok |-> TRUE, error |-> "", accs |-> r.accs, txs |-> r.txs,
              asts |-> UpdateAssets(r.asts, items, date, DOMAIN items),
              fetched |-> TRUE, seen |-> UpdateAssets(r.asts, items, date, DOMAIN items)]

\* DepreciationModal.handleConfirm
HandleConfirm ==
    /\ preview.shown
    /\ DOMAIN preview.items # {}
    /\ nextId <= MaxTx
    /\ \E outcome \in {"ok", "entriesFail"} :
       \E failed \in SUBSET DOMAIN preview.items :
       LET entries == DepreciationEntries(preview.items)
       IN  \E w \in LastWrites(entries, Issued(entries, dbAccounts)) :
           LET r == runDepreciation(dbAccounts, dbTransactions, dbAssets, nextId, nextAssetId,
                                    depreciationDate, preview.items, outcome, w, failed)
           IN  /\ dbAccounts' = r.accs
               /\ dbTransactions' = r.txs
               /\ dbAssets' = r.asts
               /\ nextId' = nextId + 1
               /\ accounts' = IF r.fetched THEN r.accs ELSE accounts
               /\ transactions' = IF r.fetched THEN r.txs ELSE transactions
               /\ assets' = IF r.fetched THEN r.seen ELSE assets
               /\ preview' = IF r.ok THEN NoPreview ELSE preview
               /\ IF r.ok THEN \E d \in TodayDates : depreciationDate' = d
                  ELSE depreciationDate' = depreciationDate
               /\ last' = LastOp("runDepreciation", r.ok, r.error, nextId, <<>>, FALSE)
    /\ UNCHANGED <<selectedAccountCode, importVars, navVars, auxVars, period, nextAssetId,
                   accountOps,
                   failedDeletes, editingAccount, initial_balance>>

\* getYearRange(): 1 January and 31 December of the current year at local
\* midnight, written as UTC dates (a time zone east of UTC: the day before)
YearRanges == {[start |-> 20231231, end |-> 20241230]}

\* the browser sessions that use the store; session 1 is the one whose React
\* state the model holds
Sessions == {1, 2}

\* the client clock and the ids issued so far
InitAux ==
    /\ clock = 0
    /\ numericId = <<>>
    /\ accountsBefore = <<>>
    /\ initial_assets = dbAssets
    /\ other = [pc |-> "idle", id |-> 0, header |-> <<>>, entries |-> <<>>,
                currentAccounts |-> <<>>]
    /\ otherTransactions = <<>>
    /\ fetches = [s \in Sessions |-> [pc |-> "idle", pending |-> {}, rejected |-> FALSE]]
    /\ insertedBy = [s \in Sessions |-> {}]

\* assets on record when the depreciation specification starts
AssetPool ==
    { [cost |-> 12000000, date |-> 20240115, life |-> 5, residual |-> 0,
       method |-> "straight-line", is_depreciable |-> TRUE,
       accumulated_depreciation |-> 0, last_depreciation_date |-> 0],
      [cost |-> 1300, date |-> 20240115, life |-> 1, residual |-> 100,
       method |-> "straight-line", is_depreciable |-> TRUE,
       accumulated_depreciation |-> 1100, last_depreciation_date |-> 0],
      [cost |-> 2400, date |-> 20231220, life |-> 1, residual |-> 0,
       method |-> "straight-line", is_depreciable |-> TRUE,
       accumulated_depreciation |-> 200, last_depreciation_date |-> 20240120],
      [cost |-> 1200, date |-> 20240115, life |-> 1, residual |-> 0,
       method |-> "straight-line", is_depreciable |-> TRUE,
       accumulated_depreciation |-> 1300, last_depreciation_date |-> 0],
      [cost |-> 100, date |-> 20240115, life |-> 1, residual |-> 1300,
       method |-> "straight-line", is_depreciable |-> TRUE,
       accumulated_depreciation |-> 0, last_depreciation_date |-> 0],
      [cost |-> 500, date |-> 20240115, life |-> 0, residual |-> 0,
       method |-> "", is_depreciable |-> TRUE,
       accumulated_depreciation |-> 0, last_depreciation_date |-> 0],
      [cost |-> 2400, date |-> 20240115, life |-> 1, residual |-> 0,
       method |-> "", is_depreciable |-> FALSE,
       accumulated_depreciation |-> 0, last_depreciation_date |-> 0] }

InitStore(accs, schemas) ==
    /\ dbAccounts = accs
    /\ codeUnique \in schemas
    /\ dbTransactions = <<>>
    /\ dbAssets = <<>>
    /\ accounts = accs
    /\ transactions = <<>>
    /\ assets = <<>>
    /\ nextId = 1
    /\ nextAssetId = 1
    /\ accountOps = 0
    /\ failedDeletes = 0
    /\ editingAccount = NoAccount
    /\ \E d \in TodayDates : depreciationDate = d
    /\ period \in YearRanges
    /\ selectedAccountCode = ""
    /\ isImportModalOpen = FALSE
    /\ importStatus = "parsing"
    /\ importData = <<>>
    /\ importErrors = <<>>
    /\ importFile = <<>>
    /\ session = FALSE
    /\ user = "null"
    /\ profile = ""
    /\ authLoading = TRUE
    /\ pendingProfiles = {}
    /\ activeSection = "dashboard"
    /\ InitAux
    /\ preview = NoPreview
    /\ initial_balance = Balances(accs)
    /\ last = NoLast

\* the state after the first fetchData of a fresh installation
Init == InitStore(defaultAccounts, {TRUE})

\* fetchData up to its first await: the tables are read; accounts that are
\* there are put into the state, an empty table starts the seeding
FetchRead(s) ==
    /\ fetches[s].pc = "idle"
    /\ IF DOMAIN dbAccounts = {}
       THEN /\ fetches' = [fetches EXCEPT ![s] = [pc |-> "seeding",
                                                   pending |-> DOMAIN defaultAccounts,
                                                   rejected |-> FALSE]]
            /\ UNCHANGED <<accounts, transactions, assets, last>>
       ELSE /\ fetches' = [fetches EXCEPT ![s].pc = "done"]
            /\ IF s = 1
               THEN /\ accounts' = dbAccounts
                    /\ transactions' = dbTransactions
                    /\ assets' = dbAssets
               ELSE UNCHANGED <<accounts, transactions, assets>>
            /\ last' = LastOp("fetchData", TRUE, "", s, <<>>, FALSE)
    /\ UNCHANGED <<dbAccounts, dbTransactions, dbAssets, nextId, nextAssetId, accountOps,
                   failedDeletes, editingAccount, depreciationDate, selectedAccountCode,
                   importVars, navVars, idVars, histVars, otherVars, codeUnique, insertedBy, period,
                   preview, initial_balance>>

\* one api.createAccount(acc) of the seeding reaches the store: the row is
\* inserted; when the table already holds the code, a table with a unique key
\* rejects the insert, one without keeps a second row (dbAccounts, keyed by
\* code, shows one of them)
CreateDefaultAccount(s) ==
    /\ fetches[s].pc = "seeding"
    /\ fetches[s].pending # {}
    /\ LET code == CHOOSE c \in fetches[s].pending : TRUE
           taken == code \in DOMAIN dbAccounts /\ codeUnique
       IN  /\ fetches' = [fetches EXCEPT ![s].pending = @ \ {code},
                                          ![s].rejected = @ \/ taken]
           /\ insertedBy' = [insertedBy EXCEPT ![s] = IF taken THEN @ ELSE @ \cup {code}]
           /\ dbAccounts' = IF code \in DOMAIN dbAccounts THEN dbAccounts
                            ELSE (code :> defaultAccounts[code]) @@ dbAccounts
           /\ initial_balance' = IF code \in DOMAIN dbAccounts THEN initial_balance
                                 ELSE (code :> defaultAccounts[code].balance) @@ initial_balance
    /\ UNCHANGED <<dbTransactions, dbAssets, accounts, transactions, assets, nextId,
                   nextAssetId, accountOps, failedDeletes, editingAccount, depreciationDate,
                   selectedAccountCode, importVars, navVars, idVars, histVars, otherVars, codeUnique,
                   period, preview, last>>

\* the seeding's Promise.all settles: after a rejected insert fetchData
\* catches the error and sets nothing; otherwise the accounts are read again
\* and put into the state with the transactions and assets read at the start
FetchSeeded(s) ==
    /\ fetches[s].pc = "seeding"
    /\ fetches[s].pending = {}
    /\ fetches' = [fetches EXCEPT ![s].pc = "done"]
    /\ IF s = 1 /\ ~fetches[s].rejected
       THEN /\ accounts' = dbAccounts
            /\ transactions' = dbTransactions
            /\ assets' = dbAssets
       ELSE UNCHANGED <<accounts, transactions, assets>>
    /\ last' = LastOp("fetchData", ~fetches[s].rejected,
                      IF fetches[s].rejected THEN "createAccount" ELSE "", s, <<>>, FALSE)
    /\ UNCHANGED <<dbAccounts, dbTransactions, dbAssets, nextId, nextAssetId, accountOps,
                   failedDeletes, editingAccount, depreciationDate, selectedAccountCode,
                   importVars, navVars, idVars, histVars, otherVars, codeUnique, insertedBy, period,
                   preview, initial_balance>>

\* the first fetchData calls of two sessions against a store without
\* accounts; the repository does not hold the schema, so the table may or may
\* not have a unique key on code
SpecSeeding ==
    InitStore(<<>>, BOOLEAN) /\ [][\E s \in Sessions : \/ FetchRead(s)
                                              \/ CreateDefaultAccount(s)
                                              \/ FetchSeeded(s)]_vars

\* -------------------------------------------------------------- Reports
\* dates the model types into the period inputs, and the accounts and dates
\* of the transactions it posts before looking at the reports
ReportDates == {20240131, 20240201}
ReportCodes == {"1100", "4100", "5400"}
ReportFormDates == {20240115, 20240220}

\* Reports.handleDateChange
HandleDateChange ==
    /\ \E d \in ReportDates :
          \/ period' = [period EXCEPT !.start = d]
          \/ period' = [period EXCEPT !.end = d]
    /\ period' # period
    /\ UNCHANGED <<dbAccounts, dbTransactions, dbAssets, accounts, transactions, assets,
                   nextId, nextAssetId, accountOps, failedDeletes, editingAccount,
                   depreciationDate, selectedAccountCode, importVars, navVars, auxVars,
                   preview, initial_balance,
                   last>>

ReportFormSubmit == TransactionFormPostWith({"ok"}, ReportCodes, ReportFormDates)

\* the signed change one entry adds to its account's opening balance or
\* period change
ReportChange(account, entry) ==
    LET change == entry.debit - entry.credit
    IN  IF account.type = "Aset" \/ account.type = "Beban" THEN change ELSE -change

RECURSIVE EntriesChange(_, _, _)
EntriesChange(accs, code, entries) ==
    IF entries = <<>> THEN 0
    ELSE (IF Head(entries).account_code = code /\ code \in DOMAIN accs
          THEN ReportChange(accs[code], Head(entries)) ELSE 0)
         + EntriesChange(accs, code, Tail(entries))

RECURSIVE TransactionsChange(_, _, _, _)
TransactionsChange(accs, code, txs, ids) ==
    IF ids = {} THEN 0
    ELSE LET id == Min(ids)
         IN  EntriesChange(accs, code, txs[id].entries)
             + TransactionsChange(accs, code, txs, ids \ {id})

priorTransactions(txs, p) == {id \in DOMAIN txs : txs[id].date < p.start}
periodTransactions(txs, p) ==
    {id \in DOMAIN txs : txs[id].date >= p.start /\ txs[id].date <= p.end}

openingBalances(accs, txs, p) ==
    [code \in DOMAIN accs |-> TransactionsChange(accs, code, txs, priorTransactions(txs, p))]

periodChanges(accs, txs, p) ==
    [code \in DOMAIN accs |-> TransactionsChange(accs, code, txs, periodTransactions(txs, p))]

RECURSIVE SumBalances(_, _)
SumBalances(f, codes) ==
    IF codes = {} THEN 0
    ELSE LET c == CHOOSE x \in codes : TRUE IN f[c] + SumBalances(f, codes \ {c})

AccountsOfType(accs, type) == {c \in DOMAIN accs : accs[c].type = type}

\* the effect of Reports that computes reportData; the report is null when
\* the period is empty or start > end
ReportShown(p) == p.start <= p.end

ReportData(accs, txs, p) ==
    LET revenues == [c \in AccountsOfType(accs, "Pendapatan") |-> -periodChanges(accs, txs, p)[c]]
        expenses == [c \in AccountsOfType(accs, "Beban") |-> periodChanges(accs, txs, p)[c]]
        totalRevenue == SumBalances(revenues, DOMAIN revenues)
        totalExpense == SumBalances(expenses, DOMAIN expenses)
        netIncome == totalRevenue - totalExpense
        closing == [c \in DOMAIN accs |->
                       openingBalances(accs, txs, p)[c] + periodChanges(accs, txs, p)[c]]
        finalAssets == [c \in AccountsOfType(accs, "Aset") |-> closing[c]]
        finalLiabilities == [c \in AccountsOfType(accs, "Liabilitas") |-> closing[c]]
        finalEquity == [c \in AccountsOfType(accs, "Modal") |->
                           IF c = "3200" THEN closing[c] + netIncome ELSE closing[c]]
        totalAssets == SumBalances(finalAssets, DOMAIN finalAssets)
        totalLiabilities == SumBalances(finalLiabilities, DOMAIN finalLiabilities)
        totalEquity == SumBalances(finalEquity, DOMAIN finalEquity)
    IN  [revenues |-> revenues, totalRevenue |-> totalRevenue,
         expenses |-> expenses, totalExpense |-> totalExpense, netIncome |-> netIncome,
         totalAssets |-> totalAssets, totalLiabilities |-> totalLiabilities,
         totalEquity |-> totalEquity,
         totalLiabilitiesAndEquity |-> totalLiabilities + totalEquity,
         isBalanced |-> totalAssets = totalLiabilities + totalEquity]

\* --------------------------------------------------------------- Ledger
\* the account select of the ledger: "" (Pilih Akun) or one of the accounts
HandleSelectAccount ==
    /\ \E code \in DOMAIN accounts \cup {""} :
          /\ code # selectedAccountCode
          /\ selectedAccountCode' = code
    /\ UNCHANGED <<dbAccounts, dbTransactions, dbAssets, accounts, transactions, assets,
                   nextId, nextAssetId, accountOps, failedDeletes, editingAccount,
                   depreciationDate, importVars, navVars, auxVars, period, preview,
                   initial_balance, last>>

\* relevantTransactions: the transactions with an entry on `code`, oldest
\* first. The sort is stable and the store returns transactions of one date
\* in no particular order: every order of equal dates is possible.
relevantTransactions(txs, code) ==
    LET ids == {id \in DOMAIN txs :
                   \E i \in 1..Len(txs[id].entries) : txs[id].entries[i].account_code = code}
    IN  {order \in [1..Cardinality(ids) -> ids] :
            /\ \A i, j \in DOMAIN order : i # j => order[i] # order[j]
            /\ \A i, j \in DOMAIN order : i < j => txs[order[i]].date <= txs[order[j]].date}

\* tx.entries.find(e => e.account_code === selectedAccountCode)
FindEntry(entries, code) ==
    entries[Min({i \in 1..Len(entries) : entries[i].account_code = code})]

\* balanceBeforeThisTx for the running balance shown on the row
balanceBeforeThisTx(account, entry, runningBalance) ==
    LET change == entry.debit - entry.credit
    IN  IF account.type = "Aset" \/ account.type = "Beban"
        THEN runningBalance - change
        ELSE runningBalance + change

\* the running balance of row i of `order`, walking back from the newest row,
\* which carries account.balance
RECURSIVE runningBalance(_, _, _, _, _)
runningBalance(account, txs, order, code, i) ==
    IF i = Len(order) THEN account.balance
    ELSE balanceBeforeThisTx(account, FindEntry(txs[order[i + 1]].entries, code),
                             runningBalance(account, txs, order, code, i + 1))

\* ledgerEntries for one order of the relevant transactions: one row per
\* transaction (no search term, no date filter)
ledgerEntries(accs, txs, order, code) ==
    IF code = "" \/ code \notin DOMAIN accs THEN <<>>
    ELSE [i \in 1..Len(order) |->
             LET entry == FindEntry(txs[order[i]].entries, code)
             IN  [id |-> order[i], date |-> txs[order[i]].date,
                  account_code |-> entry.account_code,
                  debit |-> entry.debit, credit |-> entry.credit,
                  running_balance |-> runningBalance(accs[code], txs, order, code, i)]]

\* ---------------------------------------------------------- bulk import
\* rows of the first sheet as sheet_to_json returns them; an empty cell is 0
\* or "", a date cell that does not parse is -1
ImportRow(date, desc, debit, credit, amount) ==
    [Tanggal |-> date, Deskripsi |-> desc, KodeAkunDebit |-> debit,
     KodeAkunKredit |-> credit, Jumlah |-> amount]

ImportRowPool ==
    { ImportRow(20240115, "Iuran", "1100", "4100", 1),
      ImportRow(20240220, "Penyusutan", "5400", "1100", 2),
      ImportRow(20240115, "", "1100", "4100", 1),
      ImportRow(20240115, "Iuran", "1100", "4100", 0),
      ImportRow(-1, "Iuran", "1100", "4100", 1),
      ImportRow(20240115, "Iuran", "9999", "4100", 1),
      ImportRow(20240115, "Iuran", "1100", "9999", 1),
      ImportRow(20240115, "Iuran", "1100", "4100", -1),
      ImportRow(20240115, "Iuran", "1100", "1100", 1) }

\* number of data rows of the sheets the model reads
ImportRowCounts == {0, 1, 2}

ImportFiles == UNION {[1..n -> ImportRowPool] : n \in ImportRowCounts}

\* the error handleFileImport reports for a row, "" when the row is taken
ValidateRowNoSameAccountCheck(row, accountCodes) ==
    IF \/ row.Tanggal = 0 \/ row.Deskripsi = "" \/ row.KodeAkunDebit = ""
       \/ row.KodeAkunKredit = "" \/ row.Jumlah = 0
    THEN "Kolom wajib tidak boleh kosong"
    ELSE IF row.Tanggal < 0 THEN "Format tanggal tidak valid"
    ELSE IF row.KodeAkunDebit \notin accountCodes THEN "Kode Akun Debit tidak ditemukan"
    ELSE IF row.KodeAkunKredit \notin accountCodes THEN "Kode Akun Kredit tidak ditemukan"
    ELSE IF row.Jumlah <= 0 THEN "Jumlah harus berupa angka positif"
    ELSE ""

ValidateRow(row, accountCodes) ==
    IF \/ row.Tanggal = 0 \/ row.Deskripsi = "" \/ row.KodeAkunDebit = ""
       \/ row.KodeAkunKredit = "" \/ row.Jumlah = 0
    THEN "Kolom wajib tidak boleh kosong"
    ELSE IF row.Tanggal < 0 THEN "Format tanggal tidak valid"
    ELSE IF row.KodeAkunDebit \notin accountCodes THEN "Kode Akun Debit tidak ditemukan"
    ELSE IF row.KodeAkunKredit \notin accountCodes THEN "Kode Akun Kredit tidak ditemukan"
    ELSE IF row.Jumlah <= 0 THEN "Jumlah harus berupa angka positif"
    ELSE IF row.KodeAkunDebit = row.KodeAkunKredit THEN "Akun Debit dan Kredit tidak boleh sama"
    ELSE ""

\* the payload pushed for a row that passed
ImportPayload(row) ==
    [transaction |-> [date |-> row.Tanggal, description |-> row.Deskripsi],
     entries |-> <<[account_code |-> row.KodeAkunDebit, debit |-> row.Jumlah, credit |-> 0],
                   [account_code |-> row.KodeAkunKredit, debit |-> 0, credit |-> row.Jumlah]>>]

RECURSIVE validPayloads(_, _)
validPayloads(json, accountCodes) ==
    IF json = <<>> THEN <<>>
    ELSE (IF ValidateRow(Head(json), accountCodes) = ""
          THEN <<ImportPayload(Head(json))>> ELSE <<>>)
         \o validPayloads(Tail(json), accountCodes)

\* errors, with the row number of the sheet (the header is row 1)
RECURSIVE rowErrors(_, _, _)
rowErrors(json, accountCodes, index) ==
    IF json = <<>> THEN <<>>
    ELSE (IF ValidateRow(Head(json), accountCodes) # ""
          THEN <<[row |-> index + 2, error |-> ValidateRow(Head(json), accountCodes)]>>
          ELSE <<>>)
         \o rowErrors(Tail(json), accountCodes, index + 1)

\* Transactions.handleFileImport with the reader's onload: the file input is
\* behind the modal while the modal is open
HandleFileImportOf(files) ==
    /\ ~isImportModalOpen
    /\ \E json \in files :
          LET accountCodes == DOMAIN accounts
              payloads == validPayloads(json, accountCodes)
              errors == rowErrors(json, accountCodes, 0)
          IN  /\ importFile' = json
              /\ isImportModalOpen' = TRUE
              /\ IF Len(errors) > 0
                 THEN /\ importErrors' = errors
                      /\ importStatus' = "error"
                      /\ importData' = <<>>
                 ELSE IF Len(payloads) = 0
                 THEN /\ importErrors' = <<[row |-> 0, error |-> "Tidak ada data transaksi yang valid"]>>
                      /\ importStatus' = "error"
                      /\ importData' = <<>>
                 ELSE /\ importData' = payloads
                      /\ importStatus' = "preview"
                      /\ importErrors' = <<>>
    /\ last' = LastOp("handleFileImport", TRUE, "", 0, <<>>, FALSE)
    /\ UNCHANGED <<dbAccounts, dbTransactions, dbAssets, accounts, transactions, assets,
                   nextId, nextAssetId, accountOps, failedDeletes, editingAccount,
                   depreciationDate, selectedAccountCode, period, preview, initial_balance,
                   navVars, auxVars>>

HandleFileImport == HandleFileImportOf(ImportFiles)

\* sheets whose rows all pass
ValidImportFiles ==
    {json \in ImportFiles :
        \A i \in DOMAIN json : ValidateRow(json[i], DOMAIN defaultAccounts) = ""}

HandleFileImportValid == HandleFileImportOf(ValidImportFiles)

\* outcomes of the two inserts of api.createBulkTransactions
BulkOutcomes == {"ok", "transactionsFail", "entriesFail"}

\* the store's transactions after api.createBulkTransactions(payloads), the
\* ids generated being id, id + 1, ...
createBulkTransactionsOneEntry(txs, id, payloads, outcome) ==
    IF outcome = "transactionsFail" THEN txs
    ELSE [i \in id..(id + Len(payloads) - 1) |->
             [date |-> payloads[i - id + 1].transaction.date,
              description |-> payloads[i - id + 1].transaction.description,
              entries |-> IF outcome = "ok" THEN <<payloads[i - id + 1].entries[1]>>
                          ELSE <<>>]] @@ txs

createBulkTransactions(txs, id, payloads, outcome) ==
    IF outcome = "transactionsFail" THEN txs
    ELSE [i \in id..(id + Len(payloads) - 1) |->
             [date |-> payloads[i - id + 1].transaction.date,
              description |-> payloads[i - id + 1].transaction.description,
              entries |-> IF outcome = "ok" THEN payloads[i - id + 1].entries
                          ELSE <<>>]] @@ txs

\* Transactions.handleConfirmImport, the button of the preview:
\* addBulkTransactions = api.createBulkTransactions, then fetchData
HandleConfirmImportCore(outcomes) ==
    /\ isImportModalOpen
    /\ importStatus = "preview"
    /\ nextId + Len(importData) - 1 <= MaxTx
    /\ \E outcome \in outcomes :
          /\ dbTransactions' = createBulkTransactions(dbTransactions, nextId, importData, outcome)
          /\ IF outcome = "ok"
             THEN /\ accounts' = dbAccounts
                  /\ transactions' = dbTransactions'
                  /\ assets' = dbAssets
                  /\ importStatus' = "success"
                  /\ importErrors' = importErrors
             ELSE /\ UNCHANGED <<accounts, transactions, assets>>
                  /\ importStatus' = "error"
                  /\ importErrors' = <<[row |-> 0, error |-> "Gagal mengimpor"]>>
          /\ last' = LastOp("addBulkTransactions", outcome = "ok",
                            IF outcome = "ok" THEN "" ELSE outcome, nextId, <<>>, FALSE)
    /\ nextId' = nextId + Len(importData)
    /\ UNCHANGED <<dbAccounts, dbAssets, nextAssetId, accountOps, failedDeletes,
                   editingAccount, depreciationDate, selectedAccountCode, period, preview,
                   initial_balance, isImportModalOpen, importData, importFile, navVars>>

HandleConfirmImport ==
    /\ HandleConfirmImportCore(BulkOutcomes)
    /\ UNCHANGED auxVars

\* ImportStatusModal onClose (Batal / Tutup)
CloseImportModal ==
    /\ isImportModalOpen
    /\ importStatus \in {"preview", "success", "error"}
    /\ isImportModalOpen' = FALSE
    /\ UNCHANGED <<dbAccounts, dbTransactions, dbAssets, accounts, transactions, assets,
                   nextId, nextAssetId, accountOps, failedDeletes, editingAccount,
                   depreciationDate, selectedAccountCode, period, preview, initial_balance,
                   last, importStatus, importData, importErrors, importFile, navVars, auxVars>>

\* ------------------------------------------------------ generateNumericId
\* Date.now() * 1000 + Math.floor(Math.random() * 1000)
generateNumericId(timestamp, randomSuffix) == timestamp * 1000 + randomSuffix

\* values of Math.floor(Math.random() * 1000) the model draws
RandomSuffixes == {0, 999}

\* the client clock advances by a millisecond
ClockTick ==
    /\ clock < MaxClock
    /\ clock' = clock + 1
    /\ UNCHANGED <<dbAccounts, dbTransactions, dbAssets, accounts, transactions, assets,
                   nextId, nextAssetId, accountOps, failedDeletes, editingAccount,
                   depreciationDate, selectedAccountCode, importVars, navVars, period,
                   preview, initial_balance, last, numericId, histVars, fetchVars,
                   otherVars>>

\* the ids of the transactions in the store (the primary key of the table)
StoredIds == {numericId[k] : k \in DOMAIN dbTransactions}

\* the transaction form with the id api.createTransaction generates: the
\* header insert is rejected when the id is already in the table
TransactionFormSubmitNumericId ==
    \E randomSuffix \in RandomSuffixes :
        LET id == generateNumericId(clock, randomSuffix)
        IN  /\ TransactionFormPostCore(IF id \in StoredIds THEN {"headerFails"} ELSE {"ok"},
                                       FormCodes, FormDates, FALSE)
            /\ numericId' = Append(numericId, id)
            /\ UNCHANGED <<clock, histVars, fetchVars, otherVars>>

\* the import with the ids api.createBulkTransactions generates back to back
\* in one millisecond: the insert of the headers is rejected when two ids of
\* the batch are equal or one is already in the table
HandleConfirmImportNumericIds ==
    \E suffixes \in [1..Len(importData) -> RandomSuffixes] :
        LET ids == [i \in 1..Len(importData) |-> generateNumericId(clock, suffixes[i])]
            clash == \/ \E i, j \in DOMAIN ids : i # j /\ ids[i] = ids[j]
                     \/ \E i \in DOMAIN ids : ids[i] \in StoredIds
        IN  /\ HandleConfirmImportCore(IF clash THEN {"transactionsFail"}
                                       ELSE {"ok", "entriesFail"})
            /\ numericId' = numericId \o ids
            /\ UNCHANGED <<clock, histVars, fetchVars, otherVars>>

\* ------------------------------------------------------------------ App
Sections ==
    {"dashboard", "transactions", "ledger", "accounts", "reconciliation", "assets",
     "reports", "settings"}

Roles == {"admin", "staff", "viewer"}

ROLE_PERMISSIONS ==
    [role \in Roles |->
        CASE role = "admin" -> <<"dashboard", "transactions", "ledger", "accounts",
                                 "reconciliation", "assets", "reports", "settings">>
          [] role = "staff" -> <<"dashboard", "transactions", "ledger", "accounts",
                                 "reconciliation", "assets">>
          [] role = "viewer" -> <<"dashboard", "reports">>]

\* allowedSections: [] without a profile role
allowedSections(role) == IF role \in Roles THEN ROLE_PERMISSIONS[role] ELSE <<>>

Includes(seq, x) == \E i \in 1..Len(seq) : seq[i] = x

\* the render of App: a section that is not allowed is reset to the first
\* allowed one, if there is one
ResetSection(section, role) ==
    IF ~Includes(allowedSections(role), section) /\ Len(allowedSections(role)) > 0
    THEN allowedSections(role)[1]
    ELSE section

\* what App returns: the spinner, the login page or renderSection()
renderSectionUnchecked(loading, sess, role, section) ==
    IF loading THEN "loading"
    ELSE IF ~sess THEN "login"
    ELSE section

renderSection(loading, sess, role, section) ==
    IF loading THEN "loading"
    ELSE IF ~sess THEN "login"
    ELSE IF ~Includes(allowedSections(role), section) THEN "dashboard"
    ELSE section

\* the auth listener up to its await: a sign-out, or an event carrying a
\* session whose profile (with role, or none) is then fetched
OnAuthStateChange ==
    /\ \/ /\ session' = FALSE
          /\ user' = "null"
          /\ profile' = ""
          /\ authLoading' = FALSE
          /\ UNCHANGED pendingProfiles
       \/ \E role \in Roles \cup {""} :
             /\ session' = TRUE
             /\ user' = role
             /\ pendingProfiles' = pendingProfiles \cup {role}
             /\ UNCHANGED <<profile, authLoading>>
    /\ <<session, user, profile, authLoading, pendingProfiles>>'
          # <<session, user, profile, authLoading, pendingProfiles>>
    /\ activeSection' = ResetSection(activeSection, profile')
    /\ last' = LastOp("onAuthStateChange", TRUE, "", 0, activeSection, FALSE)
    /\ UNCHANGED <<dbAccounts, dbTransactions, dbAssets, accounts, transactions, assets,
                   nextId, nextAssetId, accountOps, failedDeletes, editingAccount,
                   depreciationDate, selectedAccountCode, importVars, auxVars, period, preview,
                   initial_balance>>

\* the auth listener after its await: one of the profiles in flight arrives
ProfileLoaded ==
    /\ \E role \in pendingProfiles :
          /\ profile' = role
          /\ pendingProfiles' = pendingProfiles \ {role}
    /\ authLoading' = FALSE
    /\ activeSection' = ResetSection(activeSection, profile')
    /\ last' = LastOp("setProfile", TRUE, "", 0, activeSection, FALSE)
    /\ UNCHANGED <<dbAccounts, dbTransactions, dbAssets, accounts, transactions, assets,
                   nextId, nextAssetId, accountOps, failedDeletes, editingAccount,
                   depreciationDate, selectedAccountCode, importVars, auxVars, period, preview,
                   initial_balance, session, user>>

\* App.handleSetSection, asked for any section, followed by the render
HandleSetSection ==
    /\ session /\ ~authLoading
    /\ \E section \in Sections :
          /\ activeSection' =
                ResetSection(IF Includes(allowedSections(profile), section)
                             THEN section ELSE "dashboard", profile)
          /\ last' = LastOp("handleSetSection", Includes(allowedSections(profile), section),
                            "", 0, section, FALSE)
    /\ <<activeSection, last>>' # <<activeSection, last>>
    /\ UNCHANGED <<dbAccounts, dbTransactions, dbAssets, accounts, transactions, assets,
                   nextId, nextAssetId, accountOps, failedDeletes, editingAccount,
                   depreciationDate, selectedAccountCode, importVars, auxVars, period, preview,
                   initial_balance, session, user, profile, authLoading, pendingProfiles>>

\* ------------------------------------------------------------ AssetForm
\* what the model types into the asset form when it edits an asset
FormCosts == {1200}
FormLives == {1}

\* AssetForm opened on an asset of the list: formData is a copy of the asset;
\* the number inputs set cost and life, the checkbox (when unticked) clears
\* method and life. The method select only has one enabled option, so no
\* change event sets method: it stays what the asset had.
AssetFormData(asset) ==
    {[asset EXCEPT !.cost = c, !.life = l] : c \in FormCosts, l \in FormLives} \cup
    {[asset EXCEPT !.is_depreciable = FALSE, !.method = "", !.life = 0]}

\* AssetForm.handleSubmit with assetToEdit set: updateAsset(id, formData),
\* then fetchData
AssetFormSubmitEdit ==
    /\ \E id \in DOMAIN assets \cap DOMAIN dbAssets :
       \E formData \in AssetFormData(assets[id]) :
          /\ dbAssets' = [dbAssets EXCEPT ![id] = formData]
          /\ dbAssets' # dbAssets
          /\ dbAccounts' = SeedDefaults(dbAccounts)
          /\ accounts' = dbAccounts'
          /\ transactions' = dbTransactions
          /\ assets' = dbAssets'
          /\ last' = LastOp("updateAsset", TRUE, "", id, <<>>, FALSE)
    /\ UNCHANGED <<dbTransactions, nextId, nextAssetId, accountOps, failedDeletes,
                   editingAccount, depreciationDate, selectedAccountCode, importVars, navVars,
                   auxVars, period,
                   preview, initial_balance>>

\* the depreciation specification starts with two assets on record
InitWithAssets(pool) ==
    /\ dbAccounts = defaultAccounts
    /\ codeUnique = TRUE
    /\ dbTransactions = <<>>
    /\ dbAssets \in [{1, 2} -> pool]
    /\ accounts = dbAccounts
    /\ transactions = <<>>
    /\ assets = dbAssets
    /\ nextId = 1
    /\ nextAssetId = 3
    /\ accountOps = 0
    /\ failedDeletes = 0
    /\ editingAccount = NoAccount
    /\ \E d \in TodayDates : depreciationDate = d
    /\ period \in YearRanges
    /\ selectedAccountCode = ""
    /\ isImportModalOpen = FALSE
    /\ importStatus = "parsing"
    /\ importData = <<>>
    /\ importErrors = <<>>
    /\ importFile = <<>>
    /\ session = FALSE
    /\ user = "null"
    /\ profile = ""
    /\ authLoading = TRUE
    /\ pendingProfiles = {}
    /\ activeSection = "dashboard"
    /\ InitAux
    /\ preview = NoPreview
    /\ initial_balance = Balances(defaultAccounts)
    /\ last = NoLast

InitDepreciation == InitWithAssets(AssetPool)

\* the assets on record when the posting specification starts
PostingAssetPool == {a \in AssetPool : a.cost \in {2400}}

InitPosting == InitWithAssets(PostingAssetPool)

NextJournal ==
    \/ TransactionFormSubmit
    \/ TransactionFormSubmitEdit
    \/ HandleDeleteTransaction

NextAccounts ==
    \/ HandleOpenModal
    \/ HandleCloseModal
    \/ AccountFormSubmitEdit
    \/ AccountFormSubmitNew
    \/ HandleDeleteAccount

NextDepreciation ==
    \/ SetDepreciationDate
    \/ HandlePreview
    \/ HandleConfirm
    \/ CloseDepreciationModal

Next ==
    \/ NextJournal
    \/ NextAccounts
    \/ NextDepreciation
    \/ AssetFormSubmitEdit
    \/ HandleDeleteDepreciationAccount
    \/ HandleDateChange
    \/ ReportFormSubmit
    \/ HandleSelectAccount
    \/ HandleFileImport
    \/ HandleConfirmImport
    \/ CloseImportModal
    \/ OnAuthStateChange
    \/ ProfileLoaded
    \/ HandleSetSection
    \/ ClockTick
    \/ TransactionFormSubmitNumericId
    \/ HandleConfirmImportNumericIds
    \/ HandleFileImportValid
    \/ AutoAssetFormSubmit
    \/ AutoAssetFormSubmitRejected
    \/ TransactionFormSubmitRecorded
    \/ \E s \in Sessions : \/ FetchRead(s)
                           \/ CreateDefaultAccount(s)
                           \/ FetchSeeded(s)
    \/ OtherAddTransactionRead
    \/ OtherAddTransactionWrite
    \/ OtherFetchData
    \/ OtherDeleteTransaction

\* depreciation runs while the accumulated-depreciation account is deleted
NextPosting == NextDepreciation \/ HandleDeleteDepreciationAccount

SpecPosting == InitPosting /\ [][NextPosting]_vars

SpecDepreciation == InitDepreciation /\ [][NextDepreciation]_vars

SpecJournal == Init /\ [][NextJournal]_vars

\* the journal with a store whose inserts succeed
NextJournalOk ==
    \/ TransactionFormSubmitOk
    \/ TransactionFormSubmitEdit
    \/ HandleDeleteTransaction

SpecJournalOk == Init /\ [][NextJournalOk]_vars

\* posting and deleting transactions while accounts are deleted
NextLedger ==
    \/ TransactionFormSubmitOk
    \/ HandleDeleteTransaction
    \/ HandleDeleteAccount

SpecLedger == Init /\ [][NextLedger]_vars

\* posting and deleting transactions while the account form is used
NextAccountForm ==
    \/ TransactionFormSubmitOk
    \/ HandleDeleteTransaction
    \/ HandleOpenModal
    \/ HandleCloseModal
    \/ AccountFormSubmitEdit
    \/ AccountFormSubmitNew

SpecAccountForm == Init /\ [][NextAccountForm]_vars

\* assets recorded by postings, edited in the asset form and previewed
NextAssets ==
    \/ TransactionFormSubmitOk
    \/ AssetFormSubmitEdit
    \/ SetDepreciationDate
    \/ HandlePreview
    \/ CloseDepreciationModal

SpecAssets == Init /\ [][NextAssets]_vars

\* posting and deleting transactions, looked at in the ledger
NextLedgerView ==
    \/ TransactionFormSubmitOk
    \/ HandleDeleteTransaction
    \/ HandleSelectAccount

SpecLedgerView == Init /\ [][NextLedgerView]_vars

\* importing transactions from a spreadsheet
NextImport ==
    \/ HandleFileImport
    \/ HandleConfirmImport
    \/ CloseImportModal

SpecImport == Init /\ [][NextImport]_vars

\* signing in and out, role changes and navigation
NextNavigation ==
    \/ OnAuthStateChange
    \/ ProfileLoaded
    \/ HandleSetSection

SpecNavigation == Init /\ [][NextNavigation]_vars

\* posting and importing transactions with the ids the client generates
NextIds ==
    \/ ClockTick
    \/ TransactionFormSubmitNumericId
    \/ HandleFileImportValid
    \/ HandleConfirmImportNumericIds
    \/ CloseImportModal

SpecIds == Init /\ [][NextIds]_vars

\* posting and deleting transactions while the types of accounts are edited
SpecTypeChange ==
    Init /\ [][\/ TransactionFormSubmitRecorded
               \/ HandleDeleteTransaction
               \/ HandleOpenModal
               \/ AccountFormSubmitEdit]_vars

\* postings of two sessions that overlap
SpecOverlap ==
    Init /\ [][\/ TransactionFormSubmitOk
               \/ OtherAddTransactionRead
               \/ OtherAddTransactionWrite]_vars

\* two sessions that post and delete transactions
SpecDoubleDelete ==
    Init /\ [][\/ TransactionFormSubmitOk
               \/ HandleDeleteTransaction
               \/ OtherFetchData
               \/ OtherDeleteTransaction]_vars

\* postings that create asset records
SpecAutoAsset == Init /\ [][AutoAssetFormSubmit \/ HandleDeleteTransaction]_vars

\* the same while the store rejects api.createAsset calls
SpecAutoAssetRejected ==
    Init /\ [][AutoAssetFormSubmitRejected \/ HandleDeleteTransaction]_vars

\* postings looked at in the reports
NextReports ==
    \/ ReportFormSubmit
    \/ HandleDateChange

SpecReports == Init /\ [][NextReports]_vars

Spec == Init /\ [][Next]_vars

\* ================================================================ claims
\* sign(type) * (debit - credit), summed over the entries of `entries` that
\* reference account c
Sign(type) == IF type = "Aset" \/ type = "Beban" THEN 1 ELSE -1

RECURSIVE EntryEffect(_, _, _)
EntryEffect(type, c, entries) ==
    IF entries = <<>> THEN 0
    ELSE (IF Head(entries).account_code = c
          THEN Sign(type) * (Head(entries).debit - Head(entries).credit) ELSE 0)
         + EntryEffect(type, c, Tail(entries))

RECURSIVE StoredEffect(_, _, _, _)
StoredEffect(type, c, txs, ids) ==
    IF ids = {} THEN 0
    ELSE LET id == Min(ids)
         IN  EntryEffect(type, c, txs[id].entries) + StoredEffect(type, c, txs, ids \ {id})

\* a valid entry set: at least two entries, debits = credits > 0, every
\* account_code exists
ValidEntrySet(entries, accs) ==
    /\ Len(entries) >= 2
    /\ SumDebit(entries) = SumCredit(entries)
    /\ SumDebit(entries) > 0
    /\ \A i \in 1..Len(entries) : entries[i].account_code \in DOMAIN accs

\* C1: after any sequence of successfully completed addTransaction,
\* updateTransaction and deleteTransaction calls, every account's stored
\* balance equals its initial balance plus the signed sum of the journal
\* entries stored for it.
C1_BalanceEquation ==
    \A c \in DOMAIN dbAccounts :
        dbAccounts[c].balance =
            initial_balance[c]
            + StoredEffect(dbAccounts[c].type, c, dbTransactions, DOMAIN dbTransactions)

\* C2: addTransaction of a valid entry set (an account may appear in several
\* entries) changes every account's stored balance by exactly the signed sum
\* of that account's entries, which is 0 for an account no entry references.
C2_AddAppliesExactDelta ==
    [][(/\ last'.op = "addTransaction" /\ last'.ok
        /\ nextId' = nextId + 1 /\ last'.id = nextId
        /\ nextId \in DOMAIN dbTransactions'
        /\ ValidEntrySet(dbTransactions'[nextId].entries, dbAccounts))
       => \A c \in DOMAIN dbAccounts :
             /\ c \in DOMAIN dbAccounts'
             /\ dbAccounts'[c].balance =
                    dbAccounts[c].balance
                    + EntryEffect(dbAccounts[c].type, c, dbTransactions'[nextId].entries)]_vars

\* C3: addTransaction of a valid transaction followed immediately by
\* deleteTransaction of the same id restores every stored balance to its
\* value before the creation, and the transaction is gone from the store.
C3_RoundTrip ==
    [][(/\ last.op = "addTransaction" /\ last.ok
        /\ last'.op = "deleteTransaction" /\ last'.roundTrip /\ last'.id = last.id
        /\ last.id \in DOMAIN dbTransactions
        /\ ValidEntrySet(dbTransactions[last.id].entries, dbAccounts))
       => /\ last'.ok
          /\ Balances(dbAccounts') = last.before
          /\ last.id \notin DOMAIN dbTransactions']_vars

\* C4: every transaction in the store has at least two entries, and the
\* debits of the stored entries sum to the same strictly positive amount as
\* their credits.
C4_StoredTransactionsBalanced ==
    \A id \in DOMAIN dbTransactions :
        /\ Len(dbTransactions[id].entries) >= 2
        /\ SumDebit(dbTransactions[id].entries) = SumCredit(dbTransactions[id].entries)
        /\ SumDebit(dbTransactions[id].entries) > 0

\* C5: after a failed createTransaction no transaction exists in the store
\* without its entries (the header written before the entries failed is
\* removed again).
C5_NoHeaderWithoutEntries ==
    (last.op = "addTransaction" /\ last.error = "createTransaction")
        => (last.id \notin DOMAIN dbTransactions)

\* C6: deleteTransaction of a transaction one of whose entries references an
\* account that is no longer in the store fails with the account-not-found
\* error, and the transaction with its entries is still in the store.
C6_DeleteWithMissingAccountFails ==
    [][\A id \in DOMAIN transactions :
        (/\ last'.op = "deleteTransaction" /\ last'.id = id
         /\ (failedDeletes' # failedDeletes \/ dbTransactions' # dbTransactions
             \/ dbAccounts' # dbAccounts)
         /\ id \in DOMAIN dbTransactions
         /\ \E i \in 1..Len(transactions[id].entries) :
                transactions[id].entries[i].account_code \notin DOMAIN dbAccounts)
        => /\ ~last'.ok
           /\ last'.error = "AccountNotFound"
           /\ id \in DOMAIN dbTransactions'
           /\ dbTransactions'[id] = dbTransactions[id]]_vars

\* C6 witness: a deleteTransaction has failed on a missing account and the
\* transaction is still stored with its entries
C6_Witness ==
    /\ last.op = "deleteTransaction"
    /\ ~last.ok
    /\ last.error = "AccountNotFound"
    /\ last.id \in DOMAIN dbTransactions
    /\ \E i \in 1..Len(dbTransactions[last.id].entries) :
           dbTransactions[last.id].entries[i].account_code \notin DOMAIN dbAccounts

\* C7: the stored balance of an existing account changes only in
\* addTransaction and deleteTransaction; saving the account form never
\* changes it, whatever happened since the form was opened.
C7_BalanceChangedOnlyByJournal ==
    [][\A c \in DOMAIN dbAccounts \cap DOMAIN dbAccounts' :
        dbAccounts'[c].balance # dbAccounts[c].balance
            => last'.op \in {"addTransaction", "deleteTransaction"}]_vars

\* C8: no account whose stored balance is nonzero is ever removed from the
\* store.
C8_NoNonzeroAccountRemoved ==
    [][\A c \in DOMAIN dbAccounts :
        c \notin DOMAIN dbAccounts' => dbAccounts[c].balance = 0]_vars

\* the amount the claim states for asset as of asOfDate:
\* min(monthly * months, depreciableBase - accumulated_depreciation), never
\* negative, and 0 when months <= 0
DepreciationDue(asset, asOfDate) ==
    LET depreciableBase == asset.cost - asset.residual
        from == IF asset.last_depreciation_date = 0 THEN asset.date
                ELSE asset.last_depreciation_date
        months == 12 * ((asOfDate \div 10000) - (from \div 10000))
                  + (((asOfDate \div 100) % 100) - ((from \div 100) % 100))
        due == (depreciableBase * months) \div (asset.life * 12)
        room == depreciableBase - asset.accumulated_depreciation
        least == IF due < room THEN due ELSE room
    IN  IF months <= 0 THEN 0 ELSE IF least < 0 THEN 0 ELSE least

\* C9: for a depreciable asset with life > 0 the calculator returns
\* min(monthly * months, depreciableBase - accumulated_depreciation), never
\* negative and 0 when months <= 0; every previewed amount is that amount for
\* the previewed date; cost 12000000, residual 0, life 5 gives 2400000 twelve
\* months after acquisition; an asset 100 short of its depreciable base never
\* gets more than 100.
C9_CalculatorClosedForm ==
    /\ \A id \in DOMAIN assets : \A d \in DepreciationDates :
          LET asset == assets[id]
              amount == calculateDepreciationForAsset(asset, d)
          IN  (asset.is_depreciable /\ asset.life > 0) =>
                /\ amount = DepreciationDue(asset, d)
                /\ amount >= 0
                /\ (asset.cost = 12000000 /\ asset.residual = 0 /\ asset.life = 5
                    /\ asset.accumulated_depreciation = 0
                    /\ asset.last_depreciation_date = 0
                    /\ d = asset.date + 10000) => amount = 2400000
                /\ (asset.accumulated_depreciation = asset.cost - asset.residual - 100)
                      => amount <= 100
    /\ preview.shown =>
          \A id \in DOMAIN preview.items :
              /\ preview.items[id].asset.is_depreciable
              /\ preview.items[id].asset.life > 0
              /\ preview.items[id].amount > 0
              /\ preview.items[id].amount =
                     DepreciationDue(preview.items[id].asset, preview.asOf)

\* C9 witness: a preview holds the 2400000 of the twelve-month example and an
\* amount of 100 for an asset that was 100 short of its depreciable base
C9_Witness ==
    /\ preview.shown
    /\ \E id \in DOMAIN preview.items :
          /\ preview.items[id].asset.cost = 12000000
          /\ preview.items[id].amount = 2400000
    /\ \E id \in DOMAIN preview.items :
          /\ preview.items[id].asset.accumulated_depreciation =
                 preview.items[id].asset.cost - preview.items[id].asset.residual - 100
          /\ preview.items[id].amount = 100

\* C10: through any sequence of previews and commits every asset's stored
\* accumulated_depreciation never decreases, and an asset within its
\* depreciable base (cost - residual) stays within it.
C10_AccumulatedMonotoneAndCapped ==
    [][\A id \in DOMAIN dbAssets :
        /\ id \in DOMAIN dbAssets'
        /\ dbAssets'[id].accumulated_depreciation >= dbAssets[id].accumulated_depreciation
        /\ (dbAssets[id].accumulated_depreciation <= dbAssets[id].cost - dbAssets[id].residual)
              => (dbAssets'[id].accumulated_depreciation
                      <= dbAssets'[id].cost - dbAssets'[id].residual)]_vars

\* C11: an asset that is not depreciable, has no life > 0 or whose method is
\* not straight-line gets 0 from the posting-run calculator for every date
\* and never appears in a depreciation preview.
C11_OnlyStraightLineDepreciated ==
    /\ \A id \in DOMAIN assets : \A d \in DepreciationDates :
          ~(assets[id].is_depreciable /\ assets[id].life > 0
            /\ assets[id].method = "straight-line")
             => calculateDepreciationForAsset(assets[id], d) = 0
    /\ preview.shown =>
          \A id \in DOMAIN preview.items :
              /\ preview.items[id].asset.is_depreciable
              /\ preview.items[id].asset.life > 0
              /\ preview.items[id].asset.method = "straight-line"

\* C12: in a depreciation commit no asset is updated unless the journal
\* posting completed first (the transaction with its two entries is stored
\* and both balances are updated); a commit whose posting fails changes no
\* asset's accumulated_depreciation or last_depreciation_date.
C12_PostingBeforeAssets ==
    [][(nextId' = nextId + 1 /\ last'.op = "runDepreciation" /\ last'.id = nextId)
       => /\ (last'.error \in {"createTransaction", "AccountNotFound"})
                => dbAssets' = dbAssets
          /\ (dbAssets' # dbAssets)
                => /\ nextId \in DOMAIN dbTransactions'
                   /\ dbTransactions'[nextId].entries = DepreciationEntries(preview.items)
                   /\ DEPRECIATION_EXPENSE_ACCOUNT \in DOMAIN dbAccounts'
                   /\ ACCUMULATED_DEPRECIATION_ACCOUNT \in DOMAIN dbAccounts'
                   /\ dbAccounts'[DEPRECIATION_EXPENSE_ACCOUNT].balance =
                          dbAccounts[DEPRECIATION_EXPENSE_ACCOUNT].balance
                          + totalDepreciationAmount(preview.items)
                   /\ dbAccounts'[ACCUMULATED_DEPRECIATION_ACCOUNT].balance =
                          dbAccounts[ACCUMULATED_DEPRECIATION_ACCOUNT].balance
                          - totalDepreciationAmount(preview.items)]_vars

\* C12 witness: a commit has failed in its posting on the missing account
\* 1600, after the transaction was stored, and the assets it listed are
\* still to be depreciated
C12_Witness ==
    /\ last.op = "runDepreciation"
    /\ last.error = "AccountNotFound"
    /\ last.id \in DOMAIN dbTransactions
    /\ preview.shown
    /\ \E id \in DOMAIN preview.items : dbAssets[id] = preview.items[id].asset

\* C13: a successful depreciation commit stores exactly one new transaction,
\* dated as the commit, with exactly the two entries debit 5400 total and
\* credit 1600 total, total being the sum of the committed amounts; every
\* listed asset's stored accumulated_depreciation grows by its own amount and
\* no other asset changes, so the credit to 1600 equals the sum of the
\* assets' increases.
C13_CommitPostsTotalAndUpdatesAssets ==
    [][(nextId' = nextId + 1 /\ last'.op = "runDepreciation" /\ last'.id = nextId
        /\ last'.ok)
       => /\ DOMAIN dbTransactions' = DOMAIN dbTransactions \cup {nextId}
          /\ nextId \notin DOMAIN dbTransactions
          /\ dbTransactions'[nextId].date = depreciationDate
          /\ dbTransactions'[nextId].entries =
                <<[account_code |-> "5400",
                   debit |-> SumAmounts(preview.items, DOMAIN preview.items), credit |-> 0],
                  [account_code |-> "1600",
                   debit |-> 0, credit |-> SumAmounts(preview.items, DOMAIN preview.items)]>>
          /\ \A id \in DOMAIN dbAssets :
                dbAssets'[id].accumulated_depreciation =
                    dbAssets[id].accumulated_depreciation
                    + (IF id \in DOMAIN preview.items THEN preview.items[id].amount ELSE 0)]_vars

\* signed net amount of account c in the transactions of the period:
\* debits less credits
NetDebits(c, txs, ids) ==
    LET RECURSIVE Net(_)
        Net(S) == IF S = {} THEN 0
                  ELSE LET id == Min(S)
                       IN  EntryEffect("Aset", c, txs[id].entries) + Net(S \ {id})
    IN  Net(ids)

\* C14: when every posted transaction has equal debit and credit totals, the
\* balance sheet of every period with start <= end reports isBalanced
\* (total assets = total liabilities + total equity).
C14_BalanceSheetBalanced ==
    (/\ ReportShown(period)
     /\ \A id \in DOMAIN transactions :
            SumDebit(transactions[id].entries) = SumCredit(transactions[id].entries))
        => ReportData(accounts, transactions, period).isBalanced

\* C15: in the income statement of a period a Pendapatan account with net
\* credits X is reported as +X, a Beban account with net debits Y as +Y, and
\* netIncome = totalRevenue - totalExpense.
C15_IncomeStatementSigns ==
    ReportShown(period) =>
        LET r == ReportData(accounts, transactions, period)
            inPeriod == {id \in DOMAIN transactions :
                            /\ transactions[id].date >= period.start
                            /\ transactions[id].date <= period.end}
        IN  /\ \A c \in DOMAIN r.revenues :
                  r.revenues[c] = -NetDebits(c, transactions, inPeriod)
            /\ \A c \in DOMAIN r.expenses :
                  r.expenses[c] = NetDebits(c, transactions, inPeriod)
            /\ r.netIncome = r.totalRevenue - r.totalExpense

\* the account's balance right after row i of `order`: the balance it was
\* created with plus the signed effect of every entry on it in the
\* transactions up to that row
BalanceAfter(accs, txs, order, code, i) ==
    initial_balance[code]
    + StoredEffect(accs[code].type, code, txs, {order[j] : j \in 1..i})

\* C16: in the ledger view of an account every row's running balance is the
\* account's balance right after that transaction, the newest row shows the
\* stored balance, and the earliest row's running balance with the row's
\* effect backed out is the balance the account had before its first
\* transaction.
C16_LedgerRunningBalance ==
    (selectedAccountCode \in DOMAIN accounts) =>
        \A order \in relevantTransactions(transactions, selectedAccountCode) :
            LET code == selectedAccountCode
                rows == ledgerEntries(accounts, transactions, order, code)
            IN  Len(rows) > 0 =>
                  /\ \A i \in DOMAIN rows :
                        rows[i].running_balance
                            = BalanceAfter(accounts, transactions, order, code, i)
                  /\ rows[Len(rows)].running_balance = accounts[code].balance
                  /\ balanceBeforeThisTx(accounts[code], rows[1], rows[1].running_balance)
                        = initial_balance[code]

\* a row that may be imported: every required column filled, a date that
\* parses, both codes among the accounts, a positive amount, two accounts
RowValid(row, accs) ==
    /\ row.Tanggal > 0
    /\ row.Deskripsi # ""
    /\ row.KodeAkunDebit \in DOMAIN accs
    /\ row.KodeAkunKredit \in DOMAIN accs
    /\ row.Jumlah > 0
    /\ row.KodeAkunDebit # row.KodeAkunKredit

RECURSIVE SumBalanceDeltas(_, _, _)
SumBalanceDeltas(before, after, codes) ==
    IF codes = {} THEN 0
    ELSE LET c == CHOOSE x \in codes : TRUE
         IN  (after[c].balance - before[c].balance)
             + SumBalanceDeltas(before, after, codes \ {c})

\* C17: a bulk import of N valid rows that goes through creates exactly N
\* transactions, the i-th with the two entries of row i (debit Amount on the
\* debit account, credit Amount on the credit account), and the balance
\* deltas it causes sum to zero over all accounts.
C17_BulkImportCreatesN ==
    [][(/\ last'.op = "addBulkTransactions" /\ last'.ok /\ nextId' > nextId
        /\ \A i \in DOMAIN importFile : RowValid(importFile[i], accounts))
       => LET N == Len(importFile)
              created == DOMAIN dbTransactions' \ DOMAIN dbTransactions
          IN  /\ Cardinality(created) = N
              /\ created = nextId..(nextId + N - 1)
              /\ \A i \in 1..N :
                    LET row == importFile[i]
                        tx == dbTransactions'[nextId + i - 1]
                    IN  /\ Len(tx.entries) = 2
                        /\ tx.entries[1] = [account_code |-> row.KodeAkunDebit,
                                            debit |-> row.Jumlah, credit |-> 0]
                        /\ tx.entries[2] = [account_code |-> row.KodeAkunKredit,
                                            debit |-> 0, credit |-> row.Jumlah]
              /\ \A id \in DOMAIN dbTransactions : dbTransactions'[id] = dbTransactions[id]
              /\ DOMAIN dbAccounts' = DOMAIN dbAccounts
              /\ SumBalanceDeltas(dbAccounts, dbAccounts', DOMAIN dbAccounts) = 0]_vars

C17_Witness ==
    /\ last.op = "addBulkTransactions" /\ last.ok
    /\ importStatus = "success"
    /\ Len(importFile) = 2
    /\ Cardinality(DOMAIN dbTransactions) = 2

\* C18: after addBulkTransactions has completed successfully every account
\* referenced by an imported entry has a stored balance that includes the
\* signed effect of that entry: the balance equation holds after the import.
C18_BalancesAfterBulkImport ==
    (last.op = "addBulkTransactions" /\ last.ok) =>
        \A c \in DOMAIN dbAccounts :
            dbAccounts[c].balance =
                initial_balance[c]
                + StoredEffect(dbAccounts[c].type, c, dbTransactions,
                               DOMAIN dbTransactions)

\* C19: a row is taken for import only if its required columns are filled,
\* its date parses, both account codes exist, its amount is positive and its
\* two codes differ; the preview is reached only by a file with at least one
\* row whose rows all pass, and addBulkTransactions is invoked only from the
\* preview.
C19_ImportOnlyValidatedRows ==
    /\ [](/\ \A i \in DOMAIN importData :
                \E j \in DOMAIN importFile :
                    /\ RowValid(importFile[j], accounts)
                    /\ importData[i].entries[1].account_code = importFile[j].KodeAkunDebit
                    /\ importData[i].entries[2].account_code = importFile[j].KodeAkunKredit
                    /\ importData[i].entries[1].debit = importFile[j].Jumlah
          /\ importStatus = "preview" =>
                /\ Len(importFile) >= 1
                /\ Len(importData) = Len(importFile)
                /\ \A i \in DOMAIN importFile : RowValid(importFile[i], accounts))
    /\ [][(last'.op = "addBulkTransactions" /\ nextId' > nextId)
             => (isImportModalOpen /\ importStatus = "preview")]_vars

C19_Witness ==
    /\ isImportModalOpen
    /\ importStatus = "error"
    /\ Len(importFile) = 2
    /\ Len(importErrors) = 1
    /\ importErrors[1].error = "Akun Debit dan Kredit tidak boleh sama"
    /\ importData = <<>>

\* the sections whose components can invoke a mutating operation
MutatingSections ==
    {"transactions", "ledger", "accounts", "reconciliation", "assets", "settings"}

C21_GeneratedIdsUnique ==
    \A i, j \in DOMAIN numericId : i # j => numericId[i] # numericId[j]

\* the entries of a transaction that stand for the purchase of an asset: a
\* debit on an Aset account that is none of 1100, 1200, 1300, 1400, 1600
PurchaseEntries(entries, accs) ==
    {i \in 1..Len(entries) :
        /\ entries[i].debit > 0
        /\ entries[i].account_code \in DOMAIN accs
        /\ accs[entries[i].account_code].type = "Aset"
        /\ entries[i].account_code \notin {"1100", "1200", "1300", "1400", "1600"}}

\* the step is an addTransaction that went through and created, for exactly
\* the purchase entries, one asset each, seeded with the description, the
\* date and the debit amount and flagged `depreciable`; a failed
\* addTransaction created none
AutoAssetsCreated(depreciable) ==
    (last'.op = "addTransaction" /\ nextId' = nextId + 1 /\ last'.id = nextId)
    => LET created == DOMAIN dbAssets' \ DOMAIN dbAssets
       IN  /\ \A id \in DOMAIN dbAssets : id \in DOMAIN dbAssets' /\ dbAssets'[id] = dbAssets[id]
           /\ IF last'.ok
              THEN LET tx == dbTransactions'[nextId]
                       purchases == PurchaseEntries(tx.entries, dbAccounts)
                   IN  \E f \in [purchases -> created] :
                          /\ \A id \in created : \E i \in purchases : f[i] = id
                          /\ \A i, j \in purchases : f[i] = f[j] => i = j
                          /\ \A i \in purchases :
                                /\ dbAssets'[f[i]].name = tx.description
                                /\ dbAssets'[f[i]].date = tx.date
                                /\ dbAssets'[f[i]].cost = tx.entries[i].debit
                                /\ dbAssets'[f[i]].accumulated_depreciation = 0
                                /\ dbAssets'[f[i]].is_depreciable = depreciable
              ELSE created = {}

\* C22 as stated: in addTransaction exactly the entries with a debit on an
\* Aset account outside {1100, 1200, 1300, 1400, 1600} each create one asset,
\* seeded with description, date and debit amount, that is non-depreciable.
C22_AutoAssetsNonDepreciable == [][AutoAssetsCreated(FALSE)]_vars

\* C22, amended: those entries and no others each create one asset seeded
\* with description, date and debit amount; the asset is flagged depreciable
\* but has neither useful life nor method, so that no depreciation is
\* computed for it on any date.
C22_AutoAssetsWithoutLife ==
    [][/\ AutoAssetsCreated(TRUE)
       /\ \A id \in DOMAIN dbAssets' \ DOMAIN dbAssets :
             /\ dbAssets'[id].life = 0
             /\ dbAssets'[id].method = ""
             /\ \A d \in DepreciationDates :
                   calculateDepreciationForAsset(dbAssets'[id], d) = 0]_vars

C22_Witness ==
    /\ last.op = "addTransaction" /\ last.ok
    /\ nextId = 2
    /\ Cardinality(DOMAIN dbAssets) = 2
    /\ \A id \in DOMAIN dbAssets : dbAssets[id].cost = 1

\* C23: a rejected createAsset does not abort the posting: the transaction
\* and its balance updates remain, addTransaction refreshes the data and
\* reports success.
C23_AssetFailureDoesNotAbort ==
    [][(/\ last'.op = "addTransaction" /\ nextId' = nextId + 1 /\ last'.id = nextId
        /\ nextId \in DOMAIN dbTransactions'
        /\ Cardinality(DOMAIN dbAssets' \ DOMAIN dbAssets)
              < Cardinality(PurchaseEntries(dbTransactions'[nextId].entries, dbAccounts)))
       => /\ \A c \in DOMAIN dbAccounts :
                dbAccounts'[c].balance # dbAccounts[c].balance
                    \/ EntryEffect(dbAccounts[c].type, c, dbTransactions'[nextId].entries) = 0
          /\ last'.ok
          /\ transactions' = dbTransactions'
          /\ accounts' = dbAccounts'
          /\ assets' = dbAssets']_vars

\* C25: when deleteTransaction fails because the account of one of the
\* entries is no longer in the store, the balance of no account is changed.
C25_FailedDeleteLeavesBalances ==
    [][(/\ last'.op = "deleteTransaction"
        /\ ~last'.ok
        /\ last'.error = "AccountNotFound"
        /\ failedDeletes' # failedDeletes)
       => /\ DOMAIN dbAccounts' = DOMAIN dbAccounts
          /\ \A c \in DOMAIN dbAccounts : dbAccounts'[c].balance = dbAccounts[c].balance]_vars

\* C27: a transaction is created, the type of an account it references is
\* changed, and the transaction is deleted: the stored balances are again
\* those from before the transaction was created.
C27_TypeChangeRoundTrip ==
    [][\A id \in DOMAIN transactions \cap DOMAIN accountsBefore :
        LET before == accountsBefore[id]
            entries == transactions[id].entries
        IN  (/\ last'.op = "deleteTransaction" /\ last'.id = id /\ last'.ok
             /\ id \in DOMAIN dbTransactions /\ id \notin DOMAIN dbTransactions'
             /\ DOMAIN dbAccounts = DOMAIN before
             /\ \E i \in 1..Len(entries) :
                   dbAccounts[entries[i].account_code].type # before[entries[i].account_code].type
             /\ \A c \in DOMAIN before :
                   dbAccounts[c].balance
                       = before[c].balance + EntryEffect(before[c].type, c, entries))
            => \A c \in DOMAIN before : dbAccounts'[c].balance = before[c].balance]_vars

\* C28: depreciation runs are additive: when an asset that an earlier run
\* depreciated as of d1 is depreciated by a run as of a later date d2, its
\* accumulated depreciation is what a single run as of d2 gives for the
\* asset as it was before any run.
C28_DepreciationRunsAdditive ==
    [][\A id \in DOMAIN dbAssets \cap DOMAIN initial_assets :
        (/\ last'.op = "runDepreciation" /\ last'.ok /\ nextId' = nextId + 1
         /\ id \in DOMAIN preview.items
         /\ dbAssets[id].last_depreciation_date # initial_assets[id].last_depreciation_date
         /\ dbAssets[id].last_depreciation_date < depreciationDate)
        => dbAssets'[id].accumulated_depreciation
              = initial_assets[id].accumulated_depreciation
                  + calculateDepreciationForAsset(initial_assets[id], depreciationDate)]_vars

\* C29: under any interleaving of fetchData calls against a store without
\* accounts, no default account code is inserted twice, and a fetchData
\* inserts a default account only while the store holds nothing but the
\* accounts that this fetchData inserted itself.
C29_DefaultsSeededOnce ==
    [][/\ \A s, t \in Sessions : s # t => insertedBy'[s] \cap insertedBy'[t] = {}
       /\ \A s \in Sessions :
             insertedBy'[s] # insertedBy[s] => DOMAIN dbAccounts \subseteq insertedBy[s]]_vars

\* C30: once no profile lookup is pending, the profile held in the context is
\* that of the user of the current session, and null when there is no
\* session.
C30_ProfileOfCurrentUser ==
    pendingProfiles = {} => profile = (IF session THEN user ELSE "")

\* the entries of a transaction that reference account c
EntriesOn(entries, c) == {i \in 1..Len(entries) : entries[i].account_code = c}

\* C24: two addTransaction calls of different sessions that overlap and touch
\* the same account are not isolated: whenever the balance of an account was
\* changed between the moment one call read the accounts and the moment it
\* writes that account's balance, the change is lost, and the stored balance
\* no longer is the initial balance plus the effects of the stored entries.
C24_OverlappingPostsLoseUpdate ==
    [][\A c \in DOMAIN dbAccounts :
        (/\ other.pc = "read" /\ other'.pc = "idle"
         /\ Cardinality(EntriesOn(other.entries, c)) = 1
         /\ c \in DOMAIN other.currentAccounts
         /\ dbAccounts[c].balance # other.currentAccounts[c].balance
         /\ dbAccounts[c].balance
               = initial_balance[c]
                 + StoredEffect(dbAccounts[c].type, c, dbTransactions,
                                DOMAIN dbTransactions \ {other.id}))
        => /\ dbAccounts'[c].balance
                 = other.currentAccounts[c].balance
                   + EntryEffect(dbAccounts[c].type, c, other.entries)
           /\ dbAccounts'[c].balance
                 # initial_balance[c]
                   + StoredEffect(dbAccounts'[c].type, c, dbTransactions',
                                  DOMAIN dbTransactions')]_vars

\* C24 witness: session 2 has finished the posting it began before session 1
\* posted, both transactions have one entry on the same account, and that
\* account's balance lacks the effect of session 1's transaction
C24_Witness ==
    /\ last.op = "addTransaction" /\ last.ok /\ last.id = 1
    /\ other.pc = "idle"
    /\ DOMAIN dbTransactions = {1, 2}
    /\ \E c \in DOMAIN dbAccounts :
          /\ Cardinality(EntriesOn(dbTransactions[1].entries, c)) = 1
          /\ Cardinality(EntriesOn(dbTransactions[2].entries, c)) = 1
          /\ EntryEffect(dbAccounts[c].type, c, dbTransactions[2].entries) # 0
          /\ dbAccounts[c].balance
                = initial_balance[c] + EntryEffect(dbAccounts[c].type, c, dbTransactions[1].entries)

\* C26: deleteTransaction called a second time for a transaction that an
\* earlier call has already removed (from a session whose list still holds
\* it) does not reverse the balance effects again.
C26_BalancesReversedOnce ==
    [][(/\ last'.op = "deleteTransaction"
        /\ last'.id < nextId
        /\ last'.id \notin DOMAIN dbTransactions)
       => \A c \in DOMAIN dbAccounts : dbAccounts'[c].balance = dbAccounts[c].balance]_vars
====
